---- MODULE Spec2Model ----
(***************************************************************************)
(* Klondike solitaire game-state engine of src/src/pages/game/Game.tsx     *)
(* (the second, complete listing of the component, lines 514-1468).        *)
(*                                                                         *)
(* The React component Game keeps its state in useState hooks; every event *)
(* handler is one action of this model.  Piles are sequences whose last    *)
(* element is the top card.  Foundations and tableau columns are numbered  *)
(* from 0 as in the code; positions inside a pile are 1-based here, so the *)
(* code's card index i is position i + 1.                                  *)
(*                                                                         *)
(* Card.id is `${suit}-${rank}`, a function of suit and rank, and is not   *)
(* stored separately.  Presentation state (cardBackground, showSettings,   *)
(* dragPosition, dragOffset, dragStartPosition) never reaches the engine   *)
(* and is left out.                                                        *)
(*                                                                         *)
(* Events are modelled at the level of the handlers: a double click is the *)
(* onDoubleClick handler alone (the browser raises two click events before *)
(* it, which are two steps of HandleCardClick), and the handlers of the    *)
(* board stay reachable while the restart dialog is open.  The callback of *)
(* the pointer drag holds a copy of the state it closed over.              *)
(***************************************************************************)
EXTENDS Integers, Sequences, FiniteSets, TLC

(***************************************************************************)
(* Bounds of the model.  The code plays with 13 ranks and 7 columns; the   *)
(* model keeps the 4 suits and the 4 foundations and scales the ranks and  *)
(* the columns down.  The highest rank plays the king's part.              *)
(***************************************************************************)
NumRanks == 2

NumCols == 3

NumDeals == 2

MaxSteps == 6

(* Events of one session in the specification that plays a game through. *)
SessionSteps == 12

(* Events of one session in the specification that fills the history. *)
HistorySteps == 14

(* Events of one session of play with clicks only. *)
PlaySteps == 6

(* Events of one session in the specification of the deal. *)
DealSteps == 3

(* Cards a foundation may hold above a full suit in the inputs of the win   *)
(* test.                                                                   *)
MaxExtra == 1

(* Events of a run of stock passes (SpecCycle). *)
CycleSteps == 8

(* Events of a game played out to the foundations (SpecEndgame). *)
EndgameSteps == 12

(* Events handled on each input board (SpecBoards). *)
BoardSteps == 2

(* Program constants. *)
NumFoundations == 4

HistoryLimit == 10

Suits == <<"hearts", "diamonds", "clubs", "spades">>

Ranks == 1 .. NumRanks

King == NumRanks

Foundations == 0 .. (NumFoundations - 1)

Columns == 0 .. (NumCols - 1)

VARIABLES
  gameState,          \* {stock, waste, foundations, tableau}
  selectedCard,       \* pending click selection, or NoIntent
  draggedCard,        \* card of the HTML5 drag in progress, or NoIntent
  customDragCard,     \* card of the pointer drag, or NoIntent
  isDragging,         \* pointer drag in progress
  isReturning,        \* return animation after a refused pointer drop
  returnTimers,       \* number of setTimeout(300) callbacks not yet run
  pendingDrops,       \* the scheduled setTimeout(0) callbacks, in order
  gameHistory,        \* undo snapshots, most recent last
  showRestartConfirm, \* restart confirmation dialog is open
  showSettings,       \* settings dialog is open
  cardBackground,     \* the card back chosen in the settings dialog
  mounted,            \* the mount effect has dealt the first game
  eagerUpdate,        \* no update lane is left: the next updater runs at dispatch
  lastEvent,          \* the event handled last: handler, arguments, moveCard calls
  steps,              \* number of events handled so far (bounds the run)
  log,                \* scenario record: the states found by the moves made so far
  undone              \* scenario record: number of undos made after the moves

vars == <<gameState, selectedCard, draggedCard, customDragCard, isDragging,
          isReturning, returnTimers, pendingDrops, gameHistory, showRestartConfirm,
          showSettings, cardBackground, mounted, eagerUpdate, lastEvent, steps, log,
          undone>>

(***************************************************************************)
(* Data model                                                              *)
(***************************************************************************)
Card(s, r, up) == [suit |-> s, rank |-> r, faceUp |-> up]

NoCard == [suit |-> "none", rank |-> 0, faceUp |-> FALSE]

(* Pile identifiers: "stock", "waste", "foundation-i", "tableau-i". *)
Pile(k, n) == [pile |-> k, n |-> n]

Waste == Pile("waste", 0)

Foundation(i) == Pile("foundation", i)

Tableau(c) == Pile("tableau", c)

NoPile == Pile("none", 0)

(* index is the code's 0-based card index; Undefined stands for undefined. *)
Undefined == -1

Intent(card, source, index) == [card |-> card, source |-> source, index |-> index]

NoIntent == Intent(NoCard, NoPile, Undefined)

EmptyGameState ==
  [stock |-> <<>>, waste |-> <<>>,
   foundations |-> [i \in Foundations |-> <<>>],
   tableau |-> [c \in Columns |-> <<>>]]

Top(pile) == pile[Len(pile)]

(* A slice that drops the first n elements instead of the last n. *)
sliceDropFirst(arr, n) ==
  IF n = 0 \/ n >= Len(arr) THEN <<>> ELSE SubSeq(arr, n + 1, Len(arr))

(* arr.slice(0, -n): -0 is 0, so n = 0 gives the empty array. *)
SliceDropLast(arr, n) ==
  IF n = 0 \/ n >= Len(arr) THEN <<>> ELSE SubSeq(arr, 1, Len(arr) - n)

(* arr.slice(-n) for n > 0: the last n elements. *)
SliceLast(arr, n) ==
  IF Len(arr) <= n THEN arr ELSE SubSeq(arr, Len(arr) - n + 1, Len(arr))

RECURSIVE Reverse(_)
Unreversed(arr) == arr

Reverse(arr) ==
  IF arr = <<>> THEN <<>> ELSE Append(Reverse(Tail(arr)), Head(arr))

isRed(card) == card.suit = "hearts" \/ card.suit = "diamonds"

(***************************************************************************)
(* Deal/Shuffle                                                            *)
(***************************************************************************)
(* The deck before the shuffle: suits outer, ranks inner, all face-down. *)
UnshuffledDeck ==
  [k \in 1 .. (NumFoundations * NumRanks) |->
     Card(Suits[((k - 1) \div NumRanks) + 1], ((k - 1) % NumRanks) + 1, FALSE)]

(* Math.floor(Math.random() * (i + 1)) for the 0-based loop index i of the  *)
(* shuffle, one row of draws per deal explored.  Rows are read from the    *)
(* highest loop index of the scaled deck downwards; an index without an    *)
(* entry draws j = i, which swaps the card with itself.                    *)
RandomDraws ==
  << <<1, 0, 1, 1, 2, 2, 1>>,
     <<1, 2, 1, 3, 2, 6, 5>>,
     <<0, 0, 0, 0, 0, 0, 0>> >>

RandomIndex(deal, i) ==
  IF deal \in DOMAIN RandomDraws /\ i \in DOMAIN RandomDraws[deal]
  THEN RandomDraws[deal][i] % (i + 1)
  ELSE i

Swap(deck, a, b) == [deck EXCEPT ![a] = deck[b], ![b] = deck[a]]

(* for (let i = deck.length - 1; i > 0; i--) swap deck[i], deck[j] *)
RECURSIVE Shuffle(_, _, _)
Shuffle(deck, deal, i) ==
  IF i <= 0 THEN deck
  ELSE Shuffle(Swap(deck, i + 1, RandomIndex(deal, i) + 1), deal, i - 1)

createDeck(deal) == Shuffle(UnshuffledDeck, deal, Len(UnshuffledDeck) - 1)

(* The shuffle loop with the value of Math.floor(Math.random() * (i + 1))   *)
(* at loop index i given as draws[i].                                      *)
RECURSIVE ShuffleBy(_, _, _)
ShuffleBy(deck, draws, i) ==
  IF i <= 0 THEN deck
  ELSE ShuffleBy(Swap(deck, i + 1, draws[i] + 1), draws, i - 1)

(* Every outcome of the loop's random draws down from index i: draws[k] is  *)
(* any of 0 .. k.                                                          *)
RECURSIVE AllDraws(_)
AllDraws(i) ==
  IF i <= 0 THEN {<<>>}
  ELSE {Append(draws, j) : draws \in AllDraws(i - 1), j \in 0 .. i}

(* Number of deck cards dealt before column col, wrongly taken as col. *)
DealtOverlapping(col) == col

(* Number of deck cards dealt before column col: 0 + 1 + ... + col. *)
DealtBefore(col) == (col * (col + 1)) \div 2

(* A deal that leaves every card as createDeck made it, face-down. *)
dealFaceDown(deck) ==
  [stock |-> SubSeq(deck, DealtBefore(NumCols) + 1, Len(deck)),
   waste |-> <<>>,
   foundations |-> [i \in Foundations |-> <<>>],
   tableau |-> [col \in Columns |->
                  [row \in 1 .. (col + 1) |-> deck[DealtBefore(col) + row]]]]

(* dealCards on the deck createDeck returned. *)
dealDeck(deck) ==
  LET deckIndex == DealtBefore(NumCols)
  IN [stock |-> SubSeq(deck, deckIndex + 1, Len(deck)),
      waste |-> <<>>,
      foundations |-> [i \in Foundations |-> <<>>],
      tableau |-> [col \in Columns |->
                     [row \in 1 .. (col + 1) |->
                        [deck[DealtBefore(col) + row] EXCEPT !.faceUp = (row - 1 = col)]]]]

dealCards(deal) == dealDeck(createDeck(deal))

(***************************************************************************)
(* Rule Engine                                                             *)
(***************************************************************************)
nextRankOnFoundation(state, card, foundationIndex) ==
  card.rank = Len(state.foundations[foundationIndex]) + 1

canPlaceOnFoundation(state, card, foundationIndex) ==
  LET foundation == state.foundations[foundationIndex]
  IN IF Len(foundation) = 0
     THEN card.rank = 1
     ELSE card.suit = Top(foundation).suit /\ card.rank = Top(foundation).rank + 1

lowerRankOnTableau(state, card, columnIndex) ==
  LET column == state.tableau[columnIndex]
  IN IF Len(column) = 0
     THEN card.rank = King
     ELSE card.rank = Top(column).rank - 1

canPlaceOnTableau(state, card, columnIndex) ==
  LET column == state.tableau[columnIndex]
  IN IF Len(column) = 0
     THEN card.rank = King
     ELSE isRed(card) # isRed(Top(column)) /\ card.rank = Top(column).rank - 1

(* The loop of getMoveableSequence from 1-based position pos on, with the   *)
(* sequence collected so far.                                              *)
RECURSIVE MoveableFrom(_, _, _)
MoveableFrom(column, pos, sequence) ==
  IF pos > Len(column) \/ pos < 1 THEN sequence
  ELSE IF ~column[pos].faceUp THEN sequence
  ELSE IF Len(sequence) > 0
          /\ (isRed(column[pos]) = isRed(Top(sequence))
              \/ column[pos].rank # Top(sequence).rank - 1)
       THEN sequence
  ELSE MoveableFrom(column, pos + 1, Append(sequence, column[pos]))

faceUpTail(state, columnIndex, cardIndex) ==
  LET column == state.tableau[columnIndex]
  IN SubSeq(column, cardIndex + 1,
            IF cardIndex + 1 <= Len(column) /\ column[cardIndex + 1].faceUp
            THEN Len(column) ELSE cardIndex)

getMoveableSequence(state, columnIndex, cardIndex) ==
  MoveableFrom(state.tableau[columnIndex], cardIndex + 1, <<>>)

allCardsOnFoundations(state) ==
  Len(state.foundations[0]) + Len(state.foundations[1])
    + Len(state.foundations[2]) + Len(state.foundations[3]) = NumFoundations * NumRanks

isGameWon(state) == \A i \in Foundations : Len(state.foundations[i]) = NumRanks

(***************************************************************************)
(* Move Executor                                                           *)
(***************************************************************************)
(* The optional parameter sequence of moveCard: undefined, or an array.     *)
Sequence(cards) == [defined |-> TRUE, cards |-> cards]

NoSequence == [defined |-> FALSE, cards |-> <<>>]

(* sequence || [from.card]: an empty array is truthy and is kept. *)
cardsToMove(from, sequence) ==
  IF sequence.defined THEN sequence.cards ELSE <<from.card>>

(* "Get sequence if moving from tableau" of the click and drop handlers. *)
sequenceOf(state, from) ==
  IF from.source.pile = "tableau" /\ from.index # Undefined
  THEN Sequence(getMoveableSequence(state, from.source.n, from.index))
  ELSE NoSequence

(* Position of the card of column colIndex that the removal of n cards     *)
(* turns face-up, 0 when it turns none.                                    *)
revealedNowhere(prev, colIndex, n) == 0

revealedPosition(prev, colIndex, n) ==
  LET column == SliceDropLast(prev.tableau[colIndex], n)
  IN IF Len(column) > 0 /\ ~Top(column).faceUp THEN Len(column) ELSE 0

(* "Remove cards from source" of the state updater. *)
removeFromSource(prev, from, n) ==
  IF from.source.pile = "waste"
  THEN [prev EXCEPT !.waste = SliceDropLast(@, 1)]
  ELSE IF from.source.pile = "tableau"
  THEN LET colIndex == from.source.n
           column == SliceDropLast(prev.tableau[colIndex], n)
           k == revealedPosition(prev, colIndex, n)
       IN [prev EXCEPT !.tableau[colIndex] =
             IF k > 0 THEN [column EXCEPT ![k].faceUp = TRUE] ELSE column]
  ELSE IF from.source.pile = "foundation"
  THEN [prev EXCEPT !.foundations[from.source.n] = SliceDropLast(@, 1)]
  ELSE prev

(* "Add cards to destination" of the state updater. *)
addToDestination(state, to, cards) ==
  IF to.pile = "foundation"
  THEN [state EXCEPT !.foundations[to.n] = @ \o cards]
  ELSE IF to.pile = "tableau"
  THEN [state EXCEPT !.tableau[to.n] = @ \o cards]
  ELSE state

(* The function moveCard passes to setGameState. *)
moveCardUpdater(prev, from, to, sequence) ==
  LET cards == cardsToMove(from, sequence)
  IN addToDestination(removeFromSource(prev, from, Len(cards)), to, cards)

(* The auto-reveal writes faceUp into the card object itself.  This is the  *)
(* state `held` as it reads after the updater ran on prev: when held holds *)
(* the card objects of prev (sameObjects) the write shows in it where it   *)
(* holds that card; when it holds objects of its own (prev was rebuilt by  *)
(* JSON.parse or dealt anew since) it is left as it was.                   *)
moveCardWrites(held, sameObjects, prev, from, sequence) ==
  IF ~sameObjects \/ from.source.pile # "tableau" THEN held
  ELSE LET colIndex == from.source.n
           k == revealedPosition(prev, colIndex, Len(cardsToMove(from, sequence)))
       IN IF k > 0 /\ k <= Len(held.tableau[colIndex])
             /\ held.tableau[colIndex][k].suit = prev.tableau[colIndex][k].suit
             /\ held.tableau[colIndex][k].rank = prev.tableau[colIndex][k].rank
          THEN [held EXCEPT !.tableau[colIndex][k].faceUp = TRUE]
          ELSE held

Move(from, to, sequence) == [from |-> from, to |-> to, sequence |-> sequence]

(* The state after the updaters of the moveCard calls of one event ran in   *)
(* the order of the calls.                                                 *)
RECURSIVE runUpdaters(_, _)
runUpdaters(prev, calls) ==
  IF calls = <<>> THEN prev
  ELSE runUpdaters(
         moveCardUpdater(prev, Head(calls).from, Head(calls).to, Head(calls).sequence),
         Tail(calls))

(* The closed-over state after those updaters ran. *)
RECURSIVE runWrites(_, _, _, _)
runWrites(held, sameObjects, prev, calls) ==
  IF calls = <<>> THEN held
  ELSE runWrites(
         moveCardWrites(held, sameObjects, prev, Head(calls).from, Head(calls).sequence),
         sameObjects,
         moveCardUpdater(prev, Head(calls).from, Head(calls).to, Head(calls).sequence),
         Tail(calls))

(***************************************************************************)
(* History Manager                                                         *)
(***************************************************************************)
(* JSON.parse(JSON.stringify(state)): the four piles rebuilt card by card   *)
(* from the enumerable fields; the copy shares nothing with state.         *)
copyCard(card) == [suit |-> card.suit, rank |-> card.rank, faceUp |-> card.faceUp]

copyPile(pile) == [k \in 1 .. Len(pile) |-> copyCard(pile[k])]

(* The state itself stored as an entry, its card objects shared with the    *)
(* live state (not the program's).                                         *)
shareState(state) ==
  [stock |-> state.stock, waste |-> state.waste,
   foundations |-> state.foundations, tableau |-> state.tableau, alias |-> TRUE]

deepCopy(state) ==
  [stock |-> copyPile(state.stock),
   waste |-> copyPile(state.waste),
   foundations |-> [i \in DOMAIN state.foundations |-> copyPile(state.foundations[i])],
   tableau |-> [c \in DOMAIN state.tableau |-> copyPile(state.tableau[c])]]

(* A history that is never cut (not the program's). *)
saveGameStateUncut(history, state) == Append(history, deepCopy(state))

(* The updater saveGameState passes to setGameHistory. *)
saveGameState(history, state) ==
  SliceLast(Append(history, deepCopy(state)), HistoryLimit)

(* React runs an updater either when it is dispatched (it does so for the   *)
(* first update of a component that has no update pending) or during the   *)
(* next render, where the gameState hook, declared first, runs its queue   *)
(* before the gameHistory hook does.  The copy is taken when the history   *)
(* updater runs: of the state as the handler found it (held) when it runs  *)
(* at dispatch, of the state as the gameState updaters left it (written)   *)
(* when it runs in the render.  Only the first saveGameState of an event   *)
(* can run at dispatch.                                                    *)
(* Snapshots that are skipped when the handler found nothing to draw and   *)
(* nothing to recycle (not the program's).                                 *)
saveSnapshotsOfDraws(history, held, written, n, atDispatch) ==
  IF (held.stock = <<>> /\ held.waste = <<>>) \/ n = 0 THEN history
  ELSE IF n = 1 THEN saveGameState(history, IF atDispatch THEN held ELSE written)
  ELSE saveGameState(saveGameState(history, IF atDispatch THEN held ELSE written),
                     written)

RECURSIVE saveSnapshots(_, _, _, _, _)
saveSnapshots(history, held, written, n, atDispatch) ==
  IF n = 0 THEN history
  ELSE saveSnapshots(saveGameState(history, IF atDispatch THEN held ELSE written),
                     held, written, n - 1, FALSE)

(***************************************************************************)
(* Event handlers.  Each definition below is the effect of one handler on  *)
(* every variable but steps.                                               *)
(***************************************************************************)
(* The record of an event: the handler that ran, the card it was raised on  *)
(* (clicked), the pile it aimed at (target), the selection or drag it read *)
(* (intent) and the moveCard calls it made.                                *)
Event(handler, clicked, target, intent, calls) ==
  [handler |-> handler, clicked |-> clicked, target |-> target,
   intent |-> intent, calls |-> calls]

(* Card objects are held by reference.  An in-place write of faceUp is seen *)
(* by every structure that holds the written card object.  A history entry *)
(* built by JSON.parse holds card objects of its own; an entry that holds  *)
(* the card objects of the live state is marked by a field alias.          *)
aliased(entry) == "alias" \in DOMAIN entry

(* The history entries as the reveal writes of the moveCard calls leave     *)
(* them.                                                                   *)
entriesAfterMoves(history, prev, calls) ==
  [i \in 1 .. Len(history) |->
     IF aliased(history[i]) THEN runWrites(history[i], TRUE, prev, calls)
     ELSE history[i]]

(* A scheduled pointer-drop callback: the state and the drag it closed over *)
(* and the drop target pointer-up found.  sharesCards: the state it closed *)
(* over still holds the card objects of the live state; sharesStock: so    *)
(* does its stock.                                                         *)
PendingDrop(state, dragged, dropTarget) ==
  [gameState |-> state, customDragCard |-> dragged, dropTarget |-> dropTarget,
   sharesCards |-> TRUE, sharesStock |-> TRUE]

(* The states the scheduled pointer-drop callbacks closed over, as the      *)
(* reveal writes of the moveCard calls of another event leave them.        *)
pendingAfterMoves(pending, prev, calls) ==
  [i \in 1 .. Len(pending) |->
     IF pending[i].sharesCards
     THEN [pending[i] EXCEPT !.gameState = runWrites(@, TRUE, prev, calls)]
     ELSE pending[i]]

(* The scheduled callbacks once the live state was replaced by a state of  *)
(* new card objects (a history entry, a new deal).                         *)
pendingAfterReplace(pending) ==
  [i \in 1 .. Len(pending) |->
     [pending[i] EXCEPT !.sharesCards = FALSE, !.sharesStock = FALSE]]

(* React runs the first updater of an event at dispatch only when neither  *)
(* fiber of the component has an update lane left.  A render that changed  *)
(* some state leaves lanes on the alternate fiber; a render that found     *)
(* every state unchanged bails out and clears them; a setState that is     *)
(* computed at dispatch and gives the current state schedules no render.   *)
(* changed: some setState of the event gave a state that is not the        *)
(* current one.                                                            *)
lanesAfter(changed) == ~changed

(* One event that calls moveCard for each element of calls, in a handler    *)
(* that closed over the state held, whose card objects are those of the    *)
(* live state when sameObjects: each call runs saveGameState(held) and     *)
(* then queues its updater.                                                *)
moveCards(held, sameObjects, calls, atDispatch) ==
  /\ gameState' = runUpdaters(gameState, calls)
  /\ gameHistory' = saveSnapshots(entriesAfterMoves(gameHistory, gameState, calls),
                                  held, runWrites(held, sameObjects, gameState, calls),
                                  Len(calls), atDispatch)

(* useEffect(() => { dealCards() }, []) *)
MountDeal ==
  /\ lastEvent' = Event("dealCards", NoIntent, NoPile, NoIntent, <<>>)
  /\ ~mounted
  /\ mounted' = TRUE
  /\ \E deal \in 1 .. NumDeals : gameState' = dealCards(deal)
  /\ eagerUpdate' = lanesAfter(TRUE)
  /\ UNCHANGED <<selectedCard, draggedCard, customDragCard, isDragging,
                 isReturning, returnTimers, pendingDrops, gameHistory,
                 showRestartConfirm, showSettings, cardBackground>>

(* The updater handleStockClick passes to setGameState. *)
stockClickFaceDown(prev) ==
  IF Len(prev.stock) = 0 THEN prev
  ELSE [prev EXCEPT !.stock = SliceDropLast(prev.stock, 1),
                    !.waste = Append(prev.waste, Top(prev.stock))]

stockClickUpdater(prev) ==
  IF Len(prev.stock) = 0
  THEN [prev EXCEPT !.stock = [k \in 1 .. Len(prev.waste) |->
                                 [Reverse(prev.waste)[k] EXCEPT !.faceUp = FALSE]],
                    !.waste = <<>>]
  ELSE [prev EXCEPT !.stock = SliceDropLast(prev.stock, 1),
                    !.waste = Append(prev.waste, [Top(prev.stock) EXCEPT !.faceUp = TRUE])]

(* drawnCard.faceUp = true writes into the card object, which is still the  *)
(* last element of the stock array of the closed-over state.               *)
stockClickWrites(held) ==
  IF Len(held.stock) = 0 THEN held
  ELSE [held EXCEPT !.stock[Len(held.stock)].faceUp = TRUE]

(* drawnCard.faceUp = true as a structure sees it that may hold the card    *)
(* drawn from prev at the same place of its stock.                         *)
stockClickWritesTo(holder, prev) ==
  LET k == Len(prev.stock)
  IN IF k > 0 /\ k <= Len(holder.stock)
        /\ holder.stock[k].suit = prev.stock[k].suit
        /\ holder.stock[k].rank = prev.stock[k].rank
     THEN [holder EXCEPT !.stock[k].faceUp = TRUE]
     ELSE holder

entriesAfterDraw(history, prev) ==
  [i \in 1 .. Len(history) |->
     IF aliased(history[i]) THEN stockClickWritesTo(history[i], prev) ELSE history[i]]

(* The scheduled callbacks' states after a stock click on prev: a draw      *)
(* writes into the drawn card object, a recycle fills the stock with new   *)
(* card objects.                                                           *)
pendingAfterStockClick(pending, prev) ==
  [i \in 1 .. Len(pending) |->
     IF Len(prev.stock) = 0 THEN [pending[i] EXCEPT !.sharesStock = FALSE]
     ELSE IF pending[i].sharesStock
     THEN [pending[i] EXCEPT !.gameState = stockClickWritesTo(@, prev)]
     ELSE pending[i]]

HandleStockClick ==
  /\ lastEvent' = Event("handleStockClick", NoIntent, NoPile, NoIntent, <<>>)
  /\ mounted
  /\ gameState' = stockClickUpdater(gameState)
  /\ gameHistory' = saveSnapshots(entriesAfterDraw(gameHistory, gameState),
                                  gameState, stockClickWrites(gameState), 1, eagerUpdate)
  /\ pendingDrops' = pendingAfterStockClick(pendingDrops, gameState)
  /\ eagerUpdate' = lanesAfter(TRUE)
  /\ UNCHANGED <<selectedCard, draggedCard, customDragCard, isDragging,
                 isReturning, returnTimers, showRestartConfirm, mounted,
                 showSettings, cardBackground>>

oldestState(history) == history[1]

(* const previousState = gameHistory[gameHistory.length - 1] *)
previousState(history) == Top(history)

selectionCleared(history, selected) == NoIntent

(* setSelectedCard(null) runs inside the test of the history's length. *)
selectionAfterUndo(history, selected) ==
  IF Len(history) > 0 THEN NoIntent ELSE selected

HandleUndo ==
  /\ lastEvent' = Event("handleUndo", NoIntent, NoPile, NoIntent, <<>>)
  /\ mounted
  /\ IF Len(gameHistory) > 0
     THEN /\ gameState' = previousState(gameHistory)
          /\ gameHistory' = SliceDropLast(gameHistory, 1)
          /\ pendingDrops' = pendingAfterReplace(pendingDrops)
          /\ eagerUpdate' = lanesAfter(TRUE)
     ELSE UNCHANGED <<gameState, gameHistory, pendingDrops, eagerUpdate>>
  /\ selectedCard' = selectionAfterUndo(gameHistory, selectedCard)
  /\ UNCHANGED <<draggedCard, customDragCard, isDragging, isReturning,
                 returnTimers, showRestartConfirm, mounted, showSettings,
                 cardBackground>>

(* The cards the board renders with handlers: the top of the waste, the top *)
(* of each foundation and every card of every tableau column.              *)
Rendered(state) ==
  (IF Len(state.waste) > 0
   THEN {Intent(Top(state.waste), Waste, Undefined)} ELSE {})
  \cup {Intent(Top(state.foundations[i]), Foundation(i), Undefined) :
          i \in {f \in Foundations : Len(state.foundations[f]) > 0}}
  \cup UNION {{Intent(state.tableau[c][k], Tableau(c), k - 1) :
                 k \in 1 .. Len(state.tableau[c])} : c \in Columns}

(* The moveCard calls of handleCardClick for a face-up card. *)
cardClickCalls(state, selected, source) ==
  IF selected = NoIntent THEN <<>>
  ELSE IF source.pile = "foundation"
  THEN IF canPlaceOnFoundation(state, selected.card, source.n)
       THEN <<Move(selected, Foundation(source.n), NoSequence)>> ELSE <<>>
  ELSE IF source.pile = "tableau"
  THEN IF canPlaceOnTableau(state, selected.card, source.n)
       THEN <<Move(selected, Tableau(source.n), sequenceOf(state, selected))>> ELSE <<>>
  ELSE <<>>

(* The moveCard calls of the onClick of the foundation slot. *)
foundationClickCalls(state, selected, index) ==
  IF selected # NoIntent /\ canPlaceOnFoundation(state, selected.card, index)
  THEN <<Move(selected, Foundation(index), NoSequence)>> ELSE <<>>

(* The moveCard calls of the onClick of the tableau column. *)
columnClickCalls(state, selected, colIndex) ==
  IF selected # NoIntent /\ Len(state.tableau[colIndex]) = 0
     /\ canPlaceOnTableau(state, selected.card, colIndex)
  THEN <<Move(selected, Tableau(colIndex), sequenceOf(state, selected))>> ELSE <<>>

(* A flip that turns the clicked card face-up wherever it lies. *)
flipAnywhere(prev, source, index) ==
  IF source.pile = "tableau" /\ index + 1 <= Len(prev.tableau[source.n])
  THEN [prev EXCEPT !.tableau[source.n][index + 1].faceUp = TRUE]
  ELSE prev

(* handleCardClick for a face-down card: the top card of a tableau column   *)
(* is turned face-up, no history entry is pushed.                          *)
flipUpdater(prev, source, index) ==
  IF source.pile = "tableau" /\ index + 1 = Len(prev.tableau[source.n])
  THEN [prev EXCEPT !.tableau[source.n][index + 1].faceUp = TRUE]
  ELSE prev

(* The flip's write of faceUp as a structure sees it that may hold the      *)
(* flipped card at the same place of the same column.                      *)
flipWritesTo(holder, prev, source, index) ==
  IF source.pile = "tableau" /\ index + 1 = Len(prev.tableau[source.n])
     /\ index + 1 <= Len(holder.tableau[source.n])
     /\ holder.tableau[source.n][index + 1].suit = prev.tableau[source.n][index + 1].suit
     /\ holder.tableau[source.n][index + 1].rank = prev.tableau[source.n][index + 1].rank
  THEN [holder EXCEPT !.tableau[source.n][index + 1].faceUp = TRUE]
  ELSE holder

(* The states the scheduled pointer-drop callbacks closed over, as the      *)
(* flip's write leaves them.                                               *)
pendingAfterFlip(pending, prev, source, index) ==
  [i \in 1 .. Len(pending) |->
     IF pending[i].sharesCards
     THEN [pending[i] EXCEPT !.gameState = flipWritesTo(@, prev, source, index)]
     ELSE pending[i]]

entriesAfterFlip(history, prev, source, index) ==
  [i \in 1 .. Len(history) |->
     IF aliased(history[i]) THEN flipWritesTo(history[i], prev, source, index)
     ELSE history[i]]

(* A click on a rendered card: handleCardClick, then, as the click bubbles, *)
(* the onClick of the foundation slot or of the tableau column around it.  *)
(* A click on a face-down card that is not the top of its column calls no  *)
(* setState.                                                               *)
ClickCard(clicked) ==
  LET source == clicked.source
      own == IF clicked.card.faceUp
             THEN cardClickCalls(gameState, selectedCard, source) ELSE <<>>
      outer == IF source.pile = "foundation"
               THEN foundationClickCalls(gameState, selectedCard, source.n)
               ELSE IF source.pile = "tableau"
               THEN columnClickCalls(gameState, selectedCard, source.n)
               ELSE <<>>
  IN /\ lastEvent' = Event("handleCardClick", clicked, source, selectedCard, own \o outer)
     /\ IF ~clicked.card.faceUp /\ outer = <<>>
        THEN /\ gameState' = flipUpdater(gameState, source, clicked.index)
             /\ gameHistory' = entriesAfterFlip(gameHistory, gameState, source,
                                                clicked.index)
             /\ pendingDrops' = pendingAfterFlip(pendingDrops, gameState, source,
                                                 clicked.index)
             /\ IF flipUpdater(gameState, source, clicked.index) # gameState
                THEN eagerUpdate' = lanesAfter(TRUE)
                ELSE UNCHANGED eagerUpdate
        ELSE /\ moveCards(gameState, TRUE, own \o outer, eagerUpdate)
             /\ pendingDrops' = pendingAfterMoves(pendingDrops, gameState, own \o outer)
             /\ eagerUpdate' = lanesAfter(TRUE)
     /\ selectedCard' = IF outer # <<>> THEN NoIntent
                        ELSE IF ~clicked.card.faceUp THEN selectedCard
                        ELSE IF selectedCard # NoIntent THEN NoIntent
                        ELSE clicked

HandleCardClick ==
  /\ mounted
  /\ \E clicked \in Rendered(gameState) : ClickCard(clicked)
  /\ UNCHANGED <<draggedCard, customDragCard, isDragging, isReturning,
                 returnTimers, showRestartConfirm, mounted, showSettings,
                 cardBackground>>

(* A click on a foundation slot beside its card, or on an empty slot. *)
HandleFoundationClick ==
  /\ mounted
  /\ \E index \in Foundations :
       LET calls == foundationClickCalls(gameState, selectedCard, index)
       IN /\ lastEvent' = Event("foundationClick", NoIntent, Foundation(index),
                                selectedCard, calls)
          /\ moveCards(gameState, TRUE, calls, eagerUpdate)
          /\ pendingDrops' = pendingAfterMoves(pendingDrops, gameState, calls)
          /\ selectedCard' = IF calls # <<>> THEN NoIntent ELSE selectedCard
          /\ eagerUpdate' = IF calls # <<>> THEN lanesAfter(TRUE) ELSE eagerUpdate
  /\ UNCHANGED <<draggedCard, customDragCard, isDragging, isReturning,
                 returnTimers, showRestartConfirm, mounted, showSettings,
                 cardBackground>>

(* A click on a tableau column outside its cards, or on an empty column. *)
HandleColumnClick ==
  /\ mounted
  /\ \E colIndex \in Columns :
       LET calls == columnClickCalls(gameState, selectedCard, colIndex)
       IN /\ lastEvent' = Event("columnClick", NoIntent, Tableau(colIndex),
                                selectedCard, calls)
          /\ moveCards(gameState, TRUE, calls, eagerUpdate)
          /\ pendingDrops' = pendingAfterMoves(pendingDrops, gameState, calls)
          /\ selectedCard' = IF calls # <<>> THEN NoIntent ELSE selectedCard
          /\ eagerUpdate' = IF calls # <<>> THEN lanesAfter(TRUE) ELSE eagerUpdate
  /\ UNCHANGED <<draggedCard, customDragCard, isDragging, isReturning,
                 returnTimers, showRestartConfirm, mounted, showSettings,
                 cardBackground>>

(* The foundations that accept card, in index order. *)
acceptingFoundations(state, card) ==
  {i \in Foundations : canPlaceOnFoundation(state, card, i)}

Min(S) == CHOOSE x \in S : \A y \in S : x <= y

(* The moveCard calls of autoMoveToFoundation: the first accepting one. *)
autoMoveToFoundation(state, from) ==
  IF acceptingFoundations(state, from.card) = {} THEN <<>>
  ELSE <<Move(from, Foundation(Min(acceptingFoundations(state, from.card))), NoSequence)>>

(* onDoubleClick is set on the waste card and on the tableau cards. *)
HandleDoubleClick ==
  /\ mounted
  /\ \E from \in {r \in Rendered(gameState) : r.source.pile # "foundation"} :
       LET calls == IF from.card.faceUp
                    THEN autoMoveToFoundation(gameState, from) ELSE <<>>
       IN /\ lastEvent' = Event("handleDoubleClick", from, NoPile, NoIntent, calls)
          /\ moveCards(gameState, TRUE, calls, eagerUpdate)
          /\ pendingDrops' = pendingAfterMoves(pendingDrops, gameState, calls)
          /\ eagerUpdate' = IF calls # <<>> THEN lanesAfter(TRUE) ELSE eagerUpdate
  /\ UNCHANGED <<selectedCard, draggedCard, customDragCard, isDragging,
                 isReturning, returnTimers, showRestartConfirm, mounted,
                 showSettings, cardBackground>>

(* dragstart of a face-up card (Card.handleDragStart passes only those on). *)
HandleDragStart ==
  /\ mounted
  /\ \E from \in {r \in Rendered(gameState) : r.card.faceUp} :
       /\ draggedCard' = from
       /\ lastEvent' = Event("handleDragStart", from, NoPile, NoIntent, <<>>)
  /\ eagerUpdate' = lanesAfter(TRUE)
  /\ UNCHANGED <<gameState, selectedCard, customDragCard, isDragging,
                 isReturning, returnTimers, pendingDrops, gameHistory,
                 showRestartConfirm, mounted, showSettings, cardBackground>>

(* The piles whose cards or empty slots carry onDrop. *)
DropTargets == {Foundation(i) : i \in Foundations} \cup {Tableau(c) : c \in Columns}

(* A drop that does not ask the rule engine (not the program's). *)
dropCallsUngated(state, dragged, target) ==
  IF dragged = NoIntent THEN <<>>
  ELSE <<Move(dragged, target, sequenceOf(state, dragged))>>

(* The moveCard calls of handleDrop. *)
dropCalls(state, dragged, target) ==
  IF dragged = NoIntent THEN <<>>
  ELSE IF target.pile = "foundation"
  THEN IF canPlaceOnFoundation(state, dragged.card, target.n)
       THEN <<Move(dragged, target, NoSequence)>> ELSE <<>>
  ELSE IF target.pile = "tableau"
  THEN IF canPlaceOnTableau(state, dragged.card, target.n)
       THEN <<Move(dragged, target, sequenceOf(state, dragged))>> ELSE <<>>
  ELSE <<>>

(* if (!draggedCard) return comes before every setState of handleDrop. *)
HandleDrop ==
  /\ mounted
  /\ \E target \in DropTargets :
       LET calls == dropCalls(gameState, draggedCard, target)
       IN /\ lastEvent' = Event("handleDrop", NoIntent, target, draggedCard, calls)
          /\ moveCards(gameState, TRUE, calls, eagerUpdate)
          /\ pendingDrops' = pendingAfterMoves(pendingDrops, gameState, calls)
  /\ draggedCard' = NoIntent
  /\ eagerUpdate' = IF draggedCard # NoIntent THEN lanesAfter(TRUE) ELSE eagerUpdate
  /\ UNCHANGED <<selectedCard, customDragCard, isDragging, isReturning,
                 returnTimers, showRestartConfirm, mounted, showSettings,
                 cardBackground>>

(* handleCustomDragStart, the onPointerDown of a card: it returns at once   *)
(* for a face-down card and has no other guard, so that a gesture can      *)
(* start while the last one is still held, while its callback is scheduled *)
(* and while its return animation runs.                                    *)
HandleCustomDragStart ==
  /\ mounted
  /\ \E from \in {r \in Rendered(gameState) : r.card.faceUp} :
       /\ customDragCard' = from
       /\ lastEvent' = Event("handleCustomDragStart", from, NoPile, NoIntent, <<>>)
  /\ isDragging' = TRUE
  /\ eagerUpdate' = lanesAfter(TRUE)
  /\ UNCHANGED <<gameState, selectedCard, draggedCard, isReturning,
                 returnTimers, pendingDrops, gameHistory, showRestartConfirm,
                 mounted, showSettings, cardBackground>>

(* handleGlobalPointerUp: the effect registers it while isDragging and      *)
(* customDragCard are set.  It finds the drop target under the pointer and *)
(* schedules the callback, which closes over gameState and customDragCard  *)
(* of this render.                                                         *)
HandleGlobalPointerUp ==
  /\ mounted
  /\ isDragging /\ customDragCard # NoIntent
  /\ isDragging' = FALSE
  /\ \E dropTarget \in DropTargets \cup {NoPile} :
       /\ pendingDrops' = Append(pendingDrops,
                                 PendingDrop(gameState, customDragCard, dropTarget))
       /\ lastEvent' = Event("handleGlobalPointerUp", NoIntent, dropTarget,
                             customDragCard, <<>>)
  /\ eagerUpdate' = lanesAfter(TRUE)
  /\ UNCHANGED <<gameState, selectedCard, draggedCard, customDragCard,
                 isReturning, returnTimers, gameHistory, showRestartConfirm,
                 mounted, showSettings, cardBackground>>

(* isValidMove of the scheduled callback, the rule checks written inline. *)
isValidMove(state, card, dropTarget) ==
  IF dropTarget.pile = "foundation"
  THEN LET foundation == state.foundations[dropTarget.n]
       IN IF Len(foundation) = 0 THEN card.rank = 1
          ELSE card.suit = Top(foundation).suit /\ card.rank = Top(foundation).rank + 1
  ELSE IF dropTarget.pile = "tableau"
  THEN LET column == state.tableau[dropTarget.n]
       IN IF Len(column) = 0 THEN card.rank = King
          ELSE isRed(card) # isRed(Top(column)) /\ card.rank = Top(column).rank - 1
  ELSE FALSE

(* cardsToMove of the scheduled callback: to a foundation the dragged card, *)
(* to a column the sequence read off the closed-over state.                *)
pointerDropCalls(state, dragged, dropTarget) ==
  IF ~isValidMove(state, dragged.card, dropTarget) THEN <<>>
  ELSE IF dropTarget.pile = "foundation"
  THEN <<Move(dragged, dropTarget, NoSequence)>>
  ELSE <<Move(dragged, dropTarget,
              IF dragged.source.pile = "tableau" /\ dragged.index # Undefined
              THEN Sequence(MoveableFrom(state.tableau[dragged.source.n],
                                         dragged.index + 1, <<>>))
              ELSE Sequence(<<dragged.card>>))>>

(* The setTimeout(0) callback of handleGlobalPointerUp; the callbacks run   *)
(* in the order they were scheduled.  It validates and snapshots the state *)
(* it closed over, and its updater runs on the state that is current when  *)
(* it fires.  A refused drop starts the return animation and its timer.    *)
PointerDropTimeout ==
  /\ mounted
  /\ pendingDrops # <<>>
  /\ LET drop == Head(pendingDrops)
         calls == pointerDropCalls(drop.gameState, drop.customDragCard, drop.dropTarget)
     IN /\ lastEvent' = Event("pointerDropTimeout", NoIntent, drop.dropTarget,
                              drop.customDragCard, calls)
        /\ moveCards(drop.gameState, drop.sharesCards, calls, eagerUpdate)
        /\ pendingDrops' = pendingAfterMoves(Tail(pendingDrops), gameState, calls)
        /\ IF calls # <<>>
           THEN /\ customDragCard' = NoIntent
                /\ eagerUpdate' = lanesAfter(TRUE)
                /\ UNCHANGED <<isReturning, returnTimers>>
           ELSE /\ isReturning' = TRUE
                /\ returnTimers' = returnTimers + 1
                /\ eagerUpdate' = lanesAfter(~isReturning)
                /\ UNCHANGED customDragCard
  /\ UNCHANGED <<selectedCard, draggedCard, isDragging, showRestartConfirm,
                 mounted, showSettings, cardBackground>>

(* The setTimeout(300) callback that ends the return animation. *)
ReturnTimeout ==
  /\ lastEvent' = Event("returnTimeout", NoIntent, NoPile, NoIntent, <<>>)
  /\ mounted
  /\ returnTimers > 0
  /\ returnTimers' = returnTimers - 1
  /\ isReturning' = FALSE
  /\ customDragCard' = NoIntent
  /\ eagerUpdate' = lanesAfter(isReturning \/ customDragCard # NoIntent)
  /\ UNCHANGED <<gameState, selectedCard, draggedCard, isDragging, pendingDrops,
                 gameHistory, showRestartConfirm, mounted, showSettings,
                 cardBackground>>

(***************************************************************************)
(* Hint                                                                    *)
(***************************************************************************)
(* A hint message: its text, with the column numbers the template puts in  *)
(* it (0 where the text has none).                                         *)
Hint(text, from, to) == [text |-> text, from |-> from, to |-> to]

WasteHint == "Move the waste pile card to a foundation!"
FoundationHint == "Move a card from column ${from} to a foundation!"
FlipHint == "Click the face-down card in column ${from} to flip it!"
TableauHint == "Move a card from column ${from} to column ${to}!"
StockHint == "Draw cards from the stock pile!"
NoHint == "No obvious moves available. Try looking for sequences to move!"

(* Some foundation accepts the card. *)
someFoundationAccepts(state, card) ==
  \E i \in Foundations : canPlaceOnFoundation(state, card, i)

(* The columns whose top card is face-up and goes to a foundation. *)
hintToFoundation(state) ==
  {col \in Columns :
     /\ Len(state.tableau[col]) > 0
     /\ Top(state.tableau[col]).faceUp
     /\ someFoundationAccepts(state, Top(state.tableau[col]))}

(* The columns whose top card is face-down. *)
hintToFlip(state) ==
  {col \in Columns : Len(state.tableau[col]) > 0 /\ ~Top(state.tableau[col]).faceUp}

(* The pairs of columns whose first has a face-up top that the second      *)
(* accepts.                                                                *)
hintToTableau(state) ==
  {p \in Columns \X Columns :
     /\ Len(state.tableau[p[1]]) > 0
     /\ Top(state.tableau[p[1]]).faceUp
     /\ p[1] # p[2]
     /\ canPlaceOnTableau(state, Top(state.tableau[p[1]]), p[2])}

lastColumn(cols) == CHOOSE c \in cols : \A d \in cols : d <= c

(* The column the loop over col = 0 .. 6 returns at. *)
firstColumn(cols) == Min(cols)

(* The pair the loops over sourceCol (outer) and targetCol (inner) return  *)
(* at.                                                                     *)
firstPair(pairs) ==
  CHOOSE p \in pairs :
    \A q \in pairs : p[1] < q[1] \/ (p[1] = q[1] /\ p[2] <= q[2])

getHint(state) ==
  IF /\ Len(state.waste) > 0
     /\ Top(state.waste).faceUp
     /\ someFoundationAccepts(state, Top(state.waste))
  THEN Hint(WasteHint, 0, 0)
  ELSE IF hintToFoundation(state) # {}
  THEN Hint(FoundationHint, firstColumn(hintToFoundation(state)) + 1, 0)
  ELSE IF hintToFlip(state) # {}
  THEN Hint(FlipHint, firstColumn(hintToFlip(state)) + 1, 0)
  ELSE IF hintToTableau(state) # {}
  THEN Hint(TableauHint, firstPair(hintToTableau(state))[1] + 1,
            firstPair(hintToTableau(state))[2] + 1)
  ELSE IF Len(state.stock) > 0
  THEN Hint(StockHint, 0, 0)
  ELSE Hint(NoHint, 0, 0)

(* The Hint button: alert(getHint()); the message shown is kept in the     *)
(* event.                                                                  *)
HandleHint ==
  /\ mounted
  /\ lastEvent' = [handler |-> "handleHint", clicked |-> NoIntent, target |-> NoPile,
                   intent |-> NoIntent, calls |-> <<>>, hint |-> getHint(gameState)]
  /\ UNCHANGED <<gameState, selectedCard, draggedCard, customDragCard,
                 isDragging, isReturning, returnTimers, pendingDrops,
                 gameHistory, showRestartConfirm, mounted, showSettings,
                 cardBackground, eagerUpdate>>

(* The Restart button of the controls bar, which stays in reach while the  *)
(* dialog is open: setShowRestartConfirm(true).                            *)
HandleRestart ==
  /\ lastEvent' = Event("handleRestart", NoIntent, NoPile, NoIntent, <<>>)
  /\ mounted
  /\ showRestartConfirm' = TRUE
  /\ eagerUpdate' = lanesAfter(~showRestartConfirm)
  /\ UNCHANGED <<gameState, selectedCard, draggedCard, customDragCard,
                 isDragging, isReturning, returnTimers, pendingDrops,
                 gameHistory, mounted, showSettings, cardBackground>>

(* The Cancel button and the overlay of the restart dialog. *)
CancelRestart ==
  /\ lastEvent' = Event("cancelRestart", NoIntent, NoPile, NoIntent, <<>>)
  /\ mounted
  /\ showRestartConfirm
  /\ showRestartConfirm' = FALSE
  /\ eagerUpdate' = lanesAfter(TRUE)
  /\ UNCHANGED <<gameState, selectedCard, draggedCard, customDragCard,
                 isDragging, isReturning, returnTimers, pendingDrops,
                 gameHistory, mounted, showSettings, cardBackground>>

ConfirmRestart ==
  /\ lastEvent' = Event("confirmRestart", NoIntent, NoPile, NoIntent, <<>>)
  /\ mounted
  /\ showRestartConfirm
  /\ \E deal \in 1 .. NumDeals : gameState' = dealCards(deal)
  /\ gameHistory' = <<>>
  /\ selectedCard' = NoIntent
  /\ showRestartConfirm' = FALSE
  /\ pendingDrops' = pendingAfterReplace(pendingDrops)
  /\ eagerUpdate' = lanesAfter(TRUE)
  /\ UNCHANGED <<draggedCard, customDragCard, isDragging, isReturning,
                 returnTimers, mounted, showSettings, cardBackground>>

(* The New Game button of the win message: onClick={dealCards}. *)
NewGame ==
  /\ lastEvent' = Event("newGame", NoIntent, NoPile, NoIntent, <<>>)
  /\ mounted
  /\ isGameWon(gameState)
  /\ \E deal \in 1 .. NumDeals : gameState' = dealCards(deal)
  /\ pendingDrops' = pendingAfterReplace(pendingDrops)
  /\ eagerUpdate' = lanesAfter(TRUE)
  /\ UNCHANGED <<selectedCard, draggedCard, customDragCard, isDragging,
                 isReturning, returnTimers, gameHistory, showRestartConfirm,
                 mounted, showSettings, cardBackground>>

(* The card backs offered by the settings dialog. *)
Backgrounds == {"classic_blue", "classic_brown", "classic_green", "classic_red"}

(* The Settings button of the controls bar: setShowSettings(true). *)
OpenSettings ==
  /\ lastEvent' = Event("openSettings", NoIntent, NoPile, NoIntent, <<>>)
  /\ mounted
  /\ showSettings' = TRUE
  /\ eagerUpdate' = lanesAfter(~showSettings)
  /\ UNCHANGED <<gameState, selectedCard, draggedCard, customDragCard,
                 isDragging, isReturning, returnTimers, pendingDrops,
                 gameHistory, showRestartConfirm, cardBackground, mounted>>

(* The Close button and the overlay of the settings dialog. *)
CloseSettings ==
  /\ lastEvent' = Event("closeSettings", NoIntent, NoPile, NoIntent, <<>>)
  /\ mounted
  /\ showSettings
  /\ showSettings' = FALSE
  /\ eagerUpdate' = lanesAfter(TRUE)
  /\ UNCHANGED <<gameState, selectedCard, draggedCard, customDragCard,
                 isDragging, isReturning, returnTimers, pendingDrops,
                 gameHistory, showRestartConfirm, cardBackground, mounted>>

(* A click on one of the card backs of the settings dialog; the click stops *)
(* at the dialog's content.                                                *)
SetCardBackground ==
  /\ lastEvent' = Event("setCardBackground", NoIntent, NoPile, NoIntent, <<>>)
  /\ mounted
  /\ showSettings
  /\ \E bg \in Backgrounds :
       /\ cardBackground' = bg
       /\ eagerUpdate' = lanesAfter(bg # cardBackground)
  /\ UNCHANGED <<gameState, selectedCard, draggedCard, customDragCard,
                 isDragging, isReturning, returnTimers, pendingDrops,
                 gameHistory, showRestartConfirm, showSettings, mounted>>

(* handleGlobalPointerMove, registered with handleGlobalPointerUp: it sets  *)
(* the drag position, a new object at every move, which only places the    *)
(* dragged card on the screen.                                             *)
HandleGlobalPointerMove ==
  /\ lastEvent' = Event("handleGlobalPointerMove", NoIntent, NoPile, customDragCard, <<>>)
  /\ mounted
  /\ isDragging /\ customDragCard # NoIntent
  /\ eagerUpdate' = lanesAfter(TRUE)
  /\ UNCHANGED <<gameState, selectedCard, draggedCard, customDragCard,
                 isDragging, isReturning, returnTimers, pendingDrops,
                 gameHistory, showRestartConfirm, showSettings, cardBackground,
                 mounted>>

(***************************************************************************)
(* Specification of the whole board over a short run of events             *)
(***************************************************************************)
Init ==
  /\ gameState = EmptyGameState
  /\ selectedCard = NoIntent
  /\ draggedCard = NoIntent
  /\ customDragCard = NoIntent
  /\ isDragging = FALSE
  /\ isReturning = FALSE
  /\ returnTimers = 0
  /\ pendingDrops = <<>>
  /\ gameHistory = <<>>
  /\ showRestartConfirm = FALSE
  /\ showSettings = FALSE
  /\ cardBackground = "classic_blue"
  /\ mounted = FALSE
  /\ eagerUpdate = TRUE
  /\ lastEvent = Event("none", NoIntent, NoPile, NoIntent, <<>>)
  /\ steps = 0
  /\ log = <<>>
  /\ undone = 0

Tick(n) == steps < n /\ steps' = steps + 1 /\ UNCHANGED <<log, undone>>

Next ==
  \/ Tick(MaxSteps) /\ MountDeal
  \/ Tick(MaxSteps) /\ HandleStockClick
  \/ Tick(MaxSteps) /\ HandleUndo
  \/ Tick(MaxSteps) /\ HandleCardClick
  \/ Tick(MaxSteps) /\ HandleFoundationClick
  \/ Tick(MaxSteps) /\ HandleColumnClick
  \/ Tick(MaxSteps) /\ HandleDoubleClick
  \/ Tick(MaxSteps) /\ HandleDragStart
  \/ Tick(MaxSteps) /\ HandleDrop
  \/ Tick(MaxSteps) /\ HandleCustomDragStart
  \/ Tick(MaxSteps) /\ HandleGlobalPointerUp
  \/ Tick(MaxSteps) /\ PointerDropTimeout
  \/ Tick(MaxSteps) /\ ReturnTimeout
  \/ Tick(MaxSteps) /\ HandleRestart
  \/ Tick(MaxSteps) /\ CancelRestart
  \/ Tick(MaxSteps) /\ ConfirmRestart
  \/ Tick(MaxSteps) /\ OpenSettings
  \/ Tick(MaxSteps) /\ CloseSettings
  \/ Tick(MaxSteps) /\ SetCardBackground
  \/ Tick(MaxSteps) /\ HandleGlobalPointerMove

Spec == Init /\ [][Next]_vars

(***************************************************************************)
(* Specification of the history over a longer run: draws and recycles,    *)
(* accepted auto-moves of the waste card, undos and restarts.  Every push  *)
(* of every handler goes through saveGameState.                            *)
(***************************************************************************)
NextHistory ==
  \/ Tick(HistorySteps) /\ MountDeal
  \/ Tick(HistorySteps) /\ HandleStockClick
  \/ Tick(HistorySteps) /\ HandleUndo
  \/ Tick(HistorySteps) /\ HandleDoubleClick /\ lastEvent'.calls # <<>>
        /\ lastEvent'.clicked.source = Waste
  \/ Tick(HistorySteps) /\ HandleRestart
  \/ Tick(HistorySteps) /\ ConfirmRestart

SpecHistory == Init /\ [][NextHistory]_vars

(***************************************************************************)
(* Specification of one game played through to the win: draws, accepted   *)
(* auto-moves, restarts and, once the game is won, the New Game button.    *)
(***************************************************************************)
NextSession ==
  \/ Tick(SessionSteps) /\ MountDeal
  \/ Tick(SessionSteps) /\ HandleStockClick
  \/ Tick(SessionSteps) /\ HandleDoubleClick /\ lastEvent'.calls # <<>>
  \/ Tick(SessionSteps) /\ HandleRestart
  \/ Tick(SessionSteps) /\ ConfirmRestart
  \/ Tick(SessionSteps) /\ NewGame

SpecSession == Init /\ [][NextSession]_vars

(***************************************************************************)
(* Scenario: HistoryLimit + 1 accepted moves in a row from the fresh deal  *)
(* (stock clicks and accepted auto-moves), then undos.  log records the    *)
(* state each move found.                                                  *)
(***************************************************************************)
ScenarioMoves == HistoryLimit + 1

Moving == mounted /\ Len(log) < ScenarioMoves /\ undone = 0

Undoing == Len(log) = ScenarioMoves /\ undone < ScenarioMoves

Step == steps' = steps + 1

NextScenario ==
  \/ Step /\ MountDeal /\ UNCHANGED <<log, undone>>
  \/ Step /\ Moving /\ HandleStockClick
        /\ log' = Append(log, gameState) /\ UNCHANGED undone
  \/ Step /\ Moving /\ HandleDoubleClick /\ lastEvent'.calls # <<>>
        /\ log' = Append(log, gameState) /\ UNCHANGED undone
  \/ Step /\ Undoing /\ HandleUndo
        /\ undone' = undone + 1 /\ UNCHANGED log

SpecScenario == Init /\ [][NextScenario]_vars

(***************************************************************************)
(* Properties                                                              *)
(***************************************************************************)
RECURSIVE Flatten(_, _, _)
Flatten(piles, i, last) ==
  IF i > last THEN <<>> ELSE piles[i] \o Flatten(piles, i + 1, last)

(* Every card of the board: stock, waste, foundations, tableau columns. *)
AllCards(state) ==
  state.stock \o state.waste
  \o Flatten(state.foundations, 0, NumFoundations - 1)
  \o Flatten(state.tableau, 0, NumCols - 1)

Occurrences(cards, suit, rank) ==
  Cardinality({k \in 1 .. Len(cards) : cards[k].suit = suit /\ cards[k].rank = rank})

FullDeckOnce(state) ==
  /\ Len(AllCards(state)) = NumFoundations * NumRanks
  /\ \A s \in 1 .. NumFoundations : \A r \in Ranks :
       Occurrences(AllCards(state), Suits[s], r) = 1

(* C1: in every state reached from a deal the cards of stock, waste,        *)
(* foundations and tableau are the full deck, every (suit, rank) pair      *)
(* exactly once.                                                           *)
CardConservation == mounted => FullDeckOnce(gameState)

FoundationOrdered(foundation) ==
  \A k \in 1 .. Len(foundation) :
    foundation[k].rank = k /\ foundation[k].suit = foundation[1].suit

(* C2: every foundation holds cards of one suit with ranks 1, 2, ..., k     *)
(* from bottom to top.                                                     *)
FoundationInvariant ==
  \A i \in Foundations : FoundationOrdered(gameState.foundations[i])

ColumnOrdered(column) ==
  \A k \in 1 .. (Len(column) - 1) :
    /\ column[k].faceUp => column[k + 1].faceUp
    /\ (column[k].faceUp /\ column[k + 1].faceUp) =>
         (isRed(column[k]) # isRed(column[k + 1])
          /\ column[k + 1].rank = column[k].rank - 1)

(* C3: in every tableau column adjacent face-up cards have opposite colors  *)
(* and the upper one ranks one lower, and no face-down card lies above a   *)
(* face-up card.                                                           *)
TableauInvariant == \A c \in Columns : ColumnOrdered(gameState.tableau[c])

(* A step that pushed onto the history: an accepted card move or a stock    *)
(* click.  (An undo shortens the history, a restart empties it.)           *)
PushedHistory == lastEvent'.calls # <<>> \/ lastEvent'.handler = "handleStockClick"

(* The state handleUndo makes live. *)
undoTarget(history, state) == IF Len(history) > 0 THEN Top(history) ELSE state

(* C4: after every accepted card move and every stock click, undo gives     *)
(* back a state equal to the state before it, face orientations included.  *)
UndoRestoresPriorState ==
  [][PushedHistory => undoTarget(gameHistory', gameState') = gameState]_vars

(* C5: the history never holds more than 10 snapshots. *)
HistoryBounded == Len(gameHistory) <= HistoryLimit

(* The history is full and its oldest entry is no longer the dealt state:  *)
(* a draw pushed onto a full history.                                      *)
HistoryEvicted ==
  /\ lastEvent.handler = "handleStockClick"
  /\ Len(gameHistory) = HistoryLimit
  /\ gameHistory[1].waste # <<>>

(* C6: after HistoryLimit + 1 accepted moves in a row the undos give back   *)
(* the states before the moves 11, 10, ..., 2 in that order; the eleventh  *)
(* undo changes nothing, so the state before move 1 is not given back.     *)
LifoWithEviction ==
  /\ (Len(log) = ScenarioMoves /\ undone \in 1 .. HistoryLimit)
       => gameState = log[ScenarioMoves + 1 - undone]
  /\ undone = ScenarioMoves => (gameState = log[2] /\ gameHistory = <<>>)

(* C7: after every re-deal, by the confirmed restart or by the New Game     *)
(* button of the win message, the history is empty.                        *)
RedealClearsHistory ==
  [][lastEvent'.handler \in {"confirmRestart", "newGame"} => gameHistory' = <<>>]_vars

(* A place attempt: a click on a face-up card, on a foundation slot or on   *)
(* a column with a card selected, or a drop with a card dragged.           *)
PlaceAttempt(event) ==
  /\ event.intent # NoIntent
  /\ \/ event.handler = "handleCardClick" /\ event.clicked.card.faceUp
     \/ event.handler \in {"foundationClick", "columnClick", "handleDrop"}
  /\ event.target.pile \in {"foundation", "tableau"}

(* The rule engine's verdict on placing card on the pile target. *)
canPlace(state, card, target) ==
  IF target.pile = "foundation" THEN canPlaceOnFoundation(state, card, target.n)
  ELSE IF target.pile = "tableau" THEN canPlaceOnTableau(state, card, target.n)
  ELSE FALSE

(* C8: a place attempt whose target the rule engine refuses leaves the      *)
(* game state unchanged and adds no history entry.                         *)
RejectedMoveChangesNothing ==
  [][(PlaceAttempt(lastEvent')
      /\ ~canPlace(gameState, lastEvent'.intent.card, lastEvent'.target))
     => UNCHANGED <<gameState, gameHistory>>]_vars

(* A drop the rule engine refused has just been handled. *)
DropRefused ==
  /\ lastEvent.handler = "handleDrop"
  /\ PlaceAttempt(lastEvent)
  /\ ~canPlace(gameState, lastEvent.intent.card, lastEvent.target)

(* Every moveCard call of calls, applied in order starting from state,      *)
(* appends a first card that the rule engine accepts on the state the call *)
(* is applied to.                                                          *)
RECURSIVE Gated(_, _)
Gated(state, calls) ==
  IF calls = <<>> THEN TRUE
  ELSE LET call == Head(calls)
           cards == cardsToMove(call.from, call.sequence)
       IN /\ cards # <<>>
          /\ canPlace(state, cards[1], call.to)
          /\ Gated(moveCardUpdater(state, call.from, call.to, call.sequence), Tail(calls))

(* C9: every executed move appends a first card that satisfies the rule     *)
(* engine's predicate for its destination on the state it is applied to.   *)
SoleGate == [][Gated(gameState, lastEvent'.calls)]_vars

(* C10: the state the pointer-drag callback validated and snapshotted is    *)
(* the state its move is applied to: nothing changed the game state        *)
(* between pointer-up and the callback.                                    *)
IntentRunsToCompletion ==
  [][(lastEvent'.handler = "pointerDropTimeout" /\ lastEvent'.calls # <<>>)
     => Head(pendingDrops).gameState = gameState]_vars

(* The number of snapshots the event pushed. *)
pushes(event) == IF event.handler = "handleStockClick" THEN 1 ELSE Len(event.calls)

(* The entries of history that are still stored in after, at their places:  *)
(* after takes entries away at the front (eviction) or at the end (undo)   *)
(* and leaves the others as they were.                                     *)
entriesKept(history, after, event) ==
  IF event.handler = "handleUndo"
  THEN after = SliceDropLast(history, 1) \/ (history = <<>> /\ after = <<>>)
  ELSE IF event.handler = "confirmRestart" THEN after = <<>>
  ELSE LET evicted == Len(history) + pushes(event) - Len(after)
       IN /\ evicted \in 0 .. Len(history)
          /\ Len(after) <= HistoryLimit
          /\ \A i \in 1 .. (Len(history) - evicted) : after[i] = history[i + evicted]

(* C11: a stored snapshot shares no card with the live state: no operation  *)
(* on the live state (the faceUp writes of draw, auto-reveal and flip, or  *)
(* any pile update) changes an entry of the history.                       *)
SnapshotIndependence == [][entriesKept(gameHistory, gameHistory', lastEvent')]_vars

(* A draw has just turned a card face-up that a stored entry, older than    *)
(* the draw's own, still shows face-down on its stock.                     *)
DrawLeftSnapshotAlone ==
  /\ lastEvent.handler = "handleStockClick"
  /\ gameState.waste # <<>>
  /\ Len(gameHistory) >= 2
  /\ \E k \in 1 .. Len(gameHistory[1].stock) :
       /\ gameHistory[1].stock[k].suit = Top(gameState.waste).suit
       /\ gameHistory[1].stock[k].rank = Top(gameState.waste).rank
       /\ ~gameHistory[1].stock[k].faceUp

(* C12: each accepted card move and each stock click pushes exactly one     *)
(* snapshot, equal to the state before it: the history after it is the     *)
(* history before it with that state appended, cut to the last 10.         *)
OneSnapshotPerMove ==
  [][PushedHistory
     => gameHistory' = SliceLast(Append(gameHistory, gameState), HistoryLimit)]_vars

(* The pile of state that the pile name p stands for. *)
pileOf(state, p) ==
  IF p.pile = "waste" THEN state.waste
  ELSE IF p.pile = "foundation" THEN state.foundations[p.n]
  ELSE IF p.pile = "tableau" THEN state.tableau[p.n]
  ELSE <<>>

(* The cards of a pile without their orientation. *)
faces(pile) == [k \in 1 .. Len(pile) |-> <<pile[k].suit, pile[k].rank>>]

(* The move call takes the last cards of its source pile in state and puts  *)
(* exactly those, in their order, on top of its destination; every other   *)
(* pile stays as it is.                                                    *)
Relocates(state, call) ==
  LET after == moveCardUpdater(state, call.from, call.to, call.sequence)
      cards == cardsToMove(call.from, call.sequence)
      src == call.from.source
      source == pileOf(state, src)
      n == Len(cards)
  IN /\ n >= 1 /\ n <= Len(source)
     /\ SubSeq(source, Len(source) - n + 1, Len(source)) = cards
     /\ IF src = call.to
        THEN faces(pileOf(after, src)) = faces(source)
        ELSE /\ faces(pileOf(after, src)) = faces(SubSeq(source, 1, Len(source) - n))
             /\ pileOf(after, call.to) = pileOf(state, call.to) \o cards
     /\ after.stock = state.stock
     /\ src # Waste => after.waste = state.waste
     /\ \A i \in Foundations :
          (Foundation(i) # src /\ Foundation(i) # call.to)
            => after.foundations[i] = state.foundations[i]
     /\ \A c \in Columns :
          (Tableau(c) # src /\ Tableau(c) # call.to)
            => after.tableau[c] = state.tableau[c]

RECURSIVE AllCalls(_, _, _)
(* P holds of every call of calls on the state the call is applied to. *)
AllCalls(P(_, _), state, calls) ==
  IF calls = <<>> THEN TRUE
  ELSE /\ P(state, Head(calls))
       /\ AllCalls(P, moveCardUpdater(state, Head(calls).from, Head(calls).to,
                                      Head(calls).sequence), Tail(calls))

(* C13: every executed move removes from its source exactly the cards it    *)
(* appends to its destination, in the same order, and changes no other     *)
(* pile.                                                                   *)
MoveRelocates == [][AllCalls(Relocates, gameState, lastEvent'.calls)]_vars

(* The move call, if its source is the waste, takes the waste's top card    *)
(* and appends that card.                                                  *)
TakesWasteTop(state, call) ==
  call.from.source = Waste =>
    LET after == moveCardUpdater(state, call.from, call.to, call.sequence)
    IN /\ Len(state.waste) >= 1
       /\ after.waste = SliceDropLast(state.waste, 1)
       /\ cardsToMove(call.from, call.sequence) = <<Top(state.waste)>>

(* Play with clicks only: the deal, stock clicks, card clicks, clicks on a   *)
(* foundation slot and double clicks.                                      *)
NextPlay ==
  \/ Tick(PlaySteps) /\ MountDeal
  \/ Tick(PlaySteps) /\ HandleStockClick
  \/ Tick(PlaySteps) /\ HandleCardClick
  \/ Tick(PlaySteps) /\ HandleFoundationClick
  \/ Tick(PlaySteps) /\ HandleDoubleClick

SpecPlay == Init /\ [][NextPlay]_vars

(* C14: every executed move whose source is the waste removes exactly one   *)
(* card from the waste and appends that card, the waste's top. Stated for  *)
(* the first move an event executes, which is applied to the rendered      *)
(* state.                                                                  *)
OnlyWasteTopMoves ==
  [][lastEvent'.calls # <<>> => TakesWasteTop(gameState, lastEvent'.calls[1])]_vars

(* The move call, if it goes to a foundation, appends one card, and from a  *)
(* tableau column that card is the column's top, the card it removes.      *)
OneCardToFoundation(state, call) ==
  call.to.pile = "foundation" =>
    LET cards == cardsToMove(call.from, call.sequence)
    IN /\ Len(cards) = 1
       /\ call.from.source.pile = "tableau" =>
            /\ state.tableau[call.from.source.n] # <<>>
            /\ cards[1] = Top(state.tableau[call.from.source.n])

(* C15: every executed move to a foundation appends exactly one card, and   *)
(* from a tableau column it is the column's top card. Stated for the moves *)
(* of a double click, whose card is the one just clicked.                  *)
FoundationTakesTop ==
  [][lastEvent'.handler = "handleDoubleClick"
     => AllCalls(OneCardToFoundation, gameState, lastEvent'.calls)]_vars

(* The move call, if its source is a tableau column, leaves that column     *)
(* empty or with a face-up top; the cards left in the column are the ones  *)
(* that were there, and below the top none changed its orientation.        *)
Reveals(state, call) ==
  call.from.source.pile = "tableau" =>
    LET c == call.from.source.n
        before == state.tableau[c]
        after == moveCardUpdater(state, call.from, call.to, call.sequence).tableau[c]
        n == Len(cardsToMove(call.from, call.sequence))
        left == IF call.to = call.from.source THEN Len(after) - n ELSE Len(after)
    IN /\ after = <<>> \/ Top(after).faceUp
       /\ left = 0 \/ after[left].faceUp
       /\ left <= Len(before)
       /\ \A k \in 1 .. left :
            /\ after[k].suit = before[k].suit
            /\ after[k].rank = before[k].rank
            /\ k < left => after[k].faceUp = before[k].faceUp

(* C16: after every executed move whose source is a tableau column, that    *)
(* column is empty or its new top card is face-up; a face-down top is      *)
(* flipped and no other card of the column changes orientation.            *)
AutoReveal == [][AllCalls(Reveals, gameState, lastEvent'.calls)]_vars

(* A move has just taken the face-up card off a column and the face-down    *)
(* card under it was turned face-up, above a card that stays face-down.    *)
RevealedAfterMove ==
  /\ Len(lastEvent.calls) = 1
  /\ lastEvent.calls[1].from.source.pile = "tableau"
  /\ LET c == lastEvent.calls[1].from.source.n
     IN /\ Len(gameState.tableau[c]) = 2
        /\ Top(gameState.tableau[c]).faceUp
        /\ ~gameState.tableau[c][1].faceUp
        /\ Len(gameHistory) >= 1
        /\ Len(gameHistory[Len(gameHistory)].tableau[c]) = 3

(* C17: a stock click with a non-empty stock removes the stock's last card, *)
(* sets it face-up and appends it to the waste; the rest of the stock, the *)
(* previous waste cards, the foundations and the tableau are unchanged.    *)
DrawEffect ==
  [][(lastEvent'.handler = "handleStockClick" /\ gameState.stock # <<>>)
     => /\ gameState'.stock = SubSeq(gameState.stock, 1, Len(gameState.stock) - 1)
        /\ gameState'.waste =
             gameState.waste \o
               <<[suit |-> gameState.stock[Len(gameState.stock)].suit,
                  rank |-> gameState.stock[Len(gameState.stock)].rank,
                  faceUp |-> TRUE]>>
        /\ gameState'.foundations = gameState.foundations
        /\ gameState'.tableau = gameState.tableau]_vars

(* A stock click has just drawn a card onto a waste that already had one. *)
DrewOntoWaste ==
  /\ lastEvent.handler = "handleStockClick"
  /\ Len(gameState.waste) >= 2
  /\ Top(gameState.waste).faceUp
  /\ gameHistory # <<>>
  /\ Len(gameHistory[Len(gameHistory)].stock) = Len(gameState.stock) + 1

(* C18: a stock click with an empty stock makes the stock the waste in      *)
(* reversed order with every card face-down, empties the waste and leaves  *)
(* the foundations and the tableau unchanged.                              *)
RecycleEffect ==
  [][(lastEvent'.handler = "handleStockClick" /\ gameState.stock = <<>>)
     => /\ Len(gameState'.stock) = Len(gameState.waste)
        /\ \A k \in 1 .. Len(gameState.waste) :
             gameState'.stock[k] =
               [suit |-> gameState.waste[Len(gameState.waste) + 1 - k].suit,
                rank |-> gameState.waste[Len(gameState.waste) + 1 - k].rank,
                faceUp |-> FALSE]
        /\ gameState'.waste = <<>>
        /\ gameState'.foundations = gameState.foundations
        /\ gameState'.tableau = gameState.tableau]_vars

(* A stock click has just turned a waste of two cards or more into the      *)
(* stock.                                                                  *)
RecycledWaste ==
  /\ lastEvent.handler = "handleStockClick"
  /\ gameState.waste = <<>>
  /\ Len(gameState.stock) >= 2
  /\ gameHistory # <<>>
  /\ gameHistory[Len(gameHistory)].stock = <<>>
  /\ Len(gameHistory[Len(gameHistory)].waste) = Len(gameState.stock)

(***************************************************************************)
(* Specification of the deal over every outcome of the shuffle             *)
(***************************************************************************)
(* The mount effect's dealCards with any outcome of the shuffle. *)
MountShuffled ==
  /\ lastEvent' = Event("dealCards", NoIntent, NoPile, NoIntent, <<>>)
  /\ ~mounted
  /\ mounted' = TRUE
  /\ \E draws \in AllDraws(Len(UnshuffledDeck) - 1) :
       gameState' = dealDeck(ShuffleBy(UnshuffledDeck, draws, Len(UnshuffledDeck) - 1))
  /\ eagerUpdate' = lanesAfter(TRUE)
  /\ UNCHANGED <<selectedCard, draggedCard, customDragCard, isDragging,
                 isReturning, returnTimers, pendingDrops, gameHistory,
                 showRestartConfirm, showSettings, cardBackground>>

NextDeal ==
  \/ Tick(DealSteps) /\ MountShuffled
  \/ Tick(DealSteps) /\ HandleRestart
  \/ Tick(DealSteps) /\ CancelRestart

SpecDeal == Init /\ [][NextDeal]_vars

(* The layout the deal has to produce. *)
DealPost(state) ==
  /\ \A c \in Columns :
       /\ Len(state.tableau[c]) = c + 1
       /\ \A row \in 1 .. (c + 1) : state.tableau[c][row].faceUp = (row = c + 1)
  /\ Len(state.stock) = NumFoundations * NumRanks - ((NumCols * (NumCols + 1)) \div 2)
  /\ \A k \in 1 .. Len(state.stock) : ~state.stock[k].faceUp
  /\ state.waste = <<>>
  /\ \A i \in Foundations : state.foundations[i] = <<>>
  /\ FullDeckOnce(state)

(* C19: for every permutation the shuffle can produce, after dealCards      *)
(* column c holds c+1 cards of which only the last is face-up, the stock   *)
(* holds the remaining cards face-down, the waste and the foundations are  *)
(* empty and every card of the deck occurs exactly once.                   *)
DealPostCondition == mounted => DealPost(gameState)

(* A deal whose shuffle put the unshuffled deck's last card on the first    *)
(* column and its first card on top of the stock.                          *)
DealtShuffled ==
  /\ mounted
  /\ gameState.tableau[0] = <<[UnshuffledDeck[Len(UnshuffledDeck)] EXCEPT !.faceUp = TRUE]>>
  /\ gameState.stock # <<>>
  /\ Top(gameState.stock) = UnshuffledDeck[1]

(***************************************************************************)
(* Specification of the win test over foundations of every length          *)
(***************************************************************************)
(* A foundation of n cards of the suit of slot i, face-up from the ace; the *)
(* cards above a full suit repeat the king.                                *)
FoundationOfLength(i, n) ==
  [k \in 1 .. n |-> Card(Suits[i + 1], IF k <= NumRanks THEN k ELSE NumRanks, TRUE)]

(* The states the win test is applied to: every combination of foundation  *)
(* lengths from empty to over-full.                                        *)
WonInputs ==
  {[EmptyGameState EXCEPT !.foundations = [i \in Foundations |-> FoundationOfLength(i, len[i])]] :
     len \in [Foundations -> 0 .. (NumRanks + MaxExtra)]}

InitWon ==
  /\ gameState \in WonInputs
  /\ selectedCard = NoIntent
  /\ draggedCard = NoIntent
  /\ customDragCard = NoIntent
  /\ isDragging = FALSE
  /\ isReturning = FALSE
  /\ returnTimers = 0
  /\ pendingDrops = <<>>
  /\ gameHistory = <<>>
  /\ showRestartConfirm = FALSE
  /\ showSettings = FALSE
  /\ cardBackground = "classic_blue"
  /\ mounted = TRUE
  /\ eagerUpdate = FALSE
  /\ lastEvent = Event("none", NoIntent, NoPile, NoIntent, <<>>)
  /\ steps = 0
  /\ log = <<>>
  /\ undone = 0

(* The win message is rendered, and its New Game button works, exactly     *)
(* where isGameWon() is true.                                              *)
NextWon ==
  \/ Tick(MaxSteps) /\ NewGame

SpecWon == InitWon /\ [][NextWon]_vars

(* C20: isGameWon is true exactly when each of the 4 foundations holds a    *)
(* full suit (13 cards in the code), and false in every other              *)
(* configuration.                                                          *)
WonExactly ==
  isGameWon(gameState)
    <=> Cardinality({i \in 0 .. 3 : Len(gameState.foundations[i]) = NumRanks}) = 4

(* One foundation over-full and one a card short, as many cards as a won    *)
(* game has: not won.                                                      *)
SplitNotWon ==
  /\ Len(gameState.foundations[0]) = NumRanks + 1
  /\ Len(gameState.foundations[1]) = NumRanks - 1
  /\ Len(gameState.foundations[2]) = NumRanks
  /\ Len(gameState.foundations[3]) = NumRanks
  /\ ~isGameWon(gameState)

(* The foundations that accept the card just double-clicked. *)
acceptsClicked(state, event) ==
  {i \in Foundations : canPlaceOnFoundation(state, event.clicked.card, i)}

(* The double click put its card on the lowest accepting foundation and on  *)
(* no other; without an accepting foundation state and history stay.       *)
AutoMoveChoice(state, after, history, historyAfter, event) ==
  IF acceptsClicked(state, event) = {}
  THEN after = state /\ historyAfter = history
  ELSE after.foundations =
         [state.foundations EXCEPT ![Min(acceptsClicked(state, event))] =
            Append(@, event.clicked.card)]

(* C21: a double click on a face-up card moves it to the lowest-index       *)
(* foundation that accepts it: the card is appended there and is no longer *)
(* where it was, so it still occurs once; when no foundation accepts it    *)
(* the state and the history are unchanged.                                *)
AutoMoveToFoundation ==
  [][(lastEvent'.handler = "handleDoubleClick" /\ lastEvent'.clicked.card.faceUp)
     => /\ AutoMoveChoice(gameState, gameState', gameHistory, gameHistory', lastEvent')
        /\ Occurrences(AllCards(gameState'), lastEvent'.clicked.card.suit,
                       lastEvent'.clicked.card.rank)
             = Occurrences(AllCards(gameState), lastEvent'.clicked.card.suit,
                           lastEvent'.clicked.card.rank)]_vars

(* The clicked card of the event is the last card of a tableau column of    *)
(* state.                                                                  *)
ClickedTop(state, event) ==
  /\ event.clicked.source.pile = "tableau"
  /\ event.clicked.index + 1 = Len(state.tableau[event.clicked.source.n])

(* C22: a click on a face-down card that is the top of its tableau column   *)
(* turns exactly that card face-up and nothing else; a click on any other  *)
(* face-down card changes nothing.  Neither adds a history entry nor       *)
(* touches the selection.                                                  *)
FlipOnClick ==
  [][(lastEvent'.handler = "handleCardClick" /\ ~lastEvent'.clicked.card.faceUp)
     => /\ gameHistory' = gameHistory
        /\ selectedCard' = selectedCard
        /\ gameState' =
             IF ClickedTop(gameState, lastEvent')
             THEN [gameState EXCEPT
                     !.tableau[lastEvent'.clicked.source.n][lastEvent'.clicked.index + 1] =
                       [suit |-> lastEvent'.clicked.card.suit,
                        rank |-> lastEvent'.clicked.card.rank,
                        faceUp |-> TRUE]]
             ELSE gameState]_vars

(* A click on the face-down top of a column has just turned it face-up,    *)
(* above a card that stays face-down, and left history and selection as   *)
(* they were.                                                              *)
FaceDownTopFlipped ==
  /\ lastEvent.handler = "handleCardClick"
  /\ ~lastEvent.clicked.card.faceUp
  /\ lastEvent.clicked.source.pile = "tableau"
  /\ LET column == gameState.tableau[lastEvent.clicked.source.n]
     IN /\ lastEvent.clicked.index + 1 = Len(column)
        /\ Len(column) >= 2
        /\ Top(column).faceUp
        /\ ~column[Len(column) - 1].faceUp
  /\ gameHistory = <<>>
  /\ selectedCard = NoIntent

(* C23: with an empty history, undo leaves the state, the history and the   *)
(* pending selection as they are.                                          *)
EmptyUndoNoOp ==
  [][(lastEvent'.handler = "handleUndo" /\ gameHistory = <<>>)
     => /\ gameState' = gameState
        /\ gameHistory' = gameHistory
        /\ selectedCard' = selectedCard]_vars

(* Undo has just run on an empty history while a card was selected: only a  *)
(* card click selects, and an undo that pops clears the selection.         *)
EmptyUndoKeptSelection ==
  /\ lastEvent.handler = "handleUndo"
  /\ gameHistory = <<>>
  /\ selectedCard # NoIntent

(* C24: with a non-empty history, undo removes exactly the most recent      *)
(* entry, the earlier entries keeping content and order, makes that entry  *)
(* the live state and clears the pending selection.                        *)
UndoPopsLast ==
  [][(lastEvent'.handler = "handleUndo" /\ gameHistory # <<>>)
     => /\ gameHistory' = SubSeq(gameHistory, 1, Len(gameHistory) - 1)
        /\ gameState' = gameHistory[Len(gameHistory)]
        /\ selectedCard' = NoIntent]_vars

(* Undo has just popped an entry and left an earlier one in the history. *)
UndoLeftEarlierEntries ==
  /\ lastEvent.handler = "handleUndo"
  /\ Len(gameHistory) >= 1
  /\ selectedCard = NoIntent
  /\ gameState.waste # <<>>

(***************************************************************************)
(* Specification of the handlers that read one board: the click on a card *)
(* and the Hint button, over boards taken as inputs.                       *)
(*                                                                         *)
(* A board of BoardInputs is a fresh deal, of any outcome of the shuffle,   *)
(* or a deal played some way on: each column has lost some of its cards    *)
(* from the top, some stock cards were drawn and some of those left the    *)
(* waste, and the cards that are gone lie on the foundation of their suit, *)
(* in rank order.  The card that is now the top of a column is face-up or  *)
(* face-down.  In play every removal reveals the new top (NoFaceDownTop),  *)
(* so the boards with a face-down top are inputs of the handlers that no   *)
(* run of Spec shows: the flip of handleCardClick and the third rule of    *)
(* getHint act on them only.                                               *)
(***************************************************************************)
(* The first w cards drawn from the stock, as the waste holds them. *)
DrawnOnto(stock, w) ==
  [i \in 1 .. w |-> [stock[Len(stock) - i + 1] EXCEPT !.faceUp = TRUE]]

(* The cards of suit left on a board outside its foundations. *)
CardsLeft(cards, suit) == Cardinality({i \in 1 .. Len(cards) : cards[i].suit = suit})

BoardOf(deal, keep, up, k, w) ==
  LET dealt == dealCards(deal)
      column(c) == [j \in 1 .. keep[c] |->
                      [dealt.tableau[c][j] EXCEPT !.faceUp = (j = keep[c] /\ up[c])]]
      stock == SubSeq(dealt.stock, 1, Len(dealt.stock) - k)
      waste == DrawnOnto(dealt.stock, w)
      left == stock \o waste \o Flatten([c \in Columns |-> column(c)], 0, NumCols - 1)
  IN [stock |-> stock,
      waste |-> waste,
      foundations |-> [i \in Foundations |->
                         [r \in 1 .. (NumRanks - CardsLeft(left, Suits[i + 1])) |->
                            Card(Suits[i + 1], r, TRUE)]],
      tableau |-> [c \in Columns |-> column(c)]]

(* The number of cards the deal leaves in the stock. *)
StockSize == NumFoundations * NumRanks - DealtBefore(NumCols)

PlayedBoards ==
  {board \in
     {BoardOf(deal, keep, up, kw[1], kw[2]) :
        deal \in 1 .. NumDeals,
        keep \in {f \in [Columns -> 0 .. NumCols] : \A c \in Columns : f[c] <= c + 1},
        up \in [Columns -> BOOLEAN],
        kw \in {p \in (0 .. StockSize) \X (0 .. StockSize) : p[2] <= p[1]}} :
     FullDeckOnce(board)}

(* The fresh deal of every outcome of the shuffle. *)
DealtBoards ==
  {dealDeck(ShuffleBy(UnshuffledDeck, draws, Len(UnshuffledDeck) - 1)) :
     draws \in AllDraws(Len(UnshuffledDeck) - 1)}

BoardInputs == PlayedBoards \cup DealtBoards

InitBoards ==
  /\ gameState \in BoardInputs
  /\ selectedCard = NoIntent
  /\ draggedCard = NoIntent
  /\ customDragCard = NoIntent
  /\ isDragging = FALSE
  /\ isReturning = FALSE
  /\ returnTimers = 0
  /\ pendingDrops = <<>>
  /\ gameHistory = <<>>
  /\ showRestartConfirm = FALSE
  /\ showSettings = FALSE
  /\ cardBackground = "classic_blue"
  /\ mounted = TRUE
  /\ eagerUpdate = FALSE
  /\ lastEvent = Event("none", NoIntent, NoPile, NoIntent, <<>>)
  /\ steps = 0
  /\ log = <<>>
  /\ undone = 0

NextBoards ==
  \/ Tick(BoardSteps) /\ HandleCardClick
  \/ Tick(BoardSteps) /\ HandleHint

SpecBoards == InitBoards /\ [][NextBoards]_vars

(* The rules of the hint, each as a condition on the state. *)
WasteRule(state) ==
  /\ state.waste # <<>>
  /\ state.waste[Len(state.waste)].faceUp
  /\ \E i \in 0 .. 3 : canPlaceOnFoundation(state, state.waste[Len(state.waste)], i)

FoundationRule(state, c) ==
  /\ state.tableau[c] # <<>>
  /\ state.tableau[c][Len(state.tableau[c])].faceUp
  /\ \E i \in 0 .. 3 :
       canPlaceOnFoundation(state, state.tableau[c][Len(state.tableau[c])], i)

FlipRule(state, c) ==
  /\ state.tableau[c] # <<>>
  /\ ~state.tableau[c][Len(state.tableau[c])].faceUp

TableauRule(state, c, t) ==
  /\ c # t
  /\ state.tableau[c] # <<>>
  /\ state.tableau[c][Len(state.tableau[c])].faceUp
  /\ canPlaceOnTableau(state, state.tableau[c][Len(state.tableau[c])], t)

(* The message h is the one of the first applicable rule for state, with   *)
(* the lowest column, or the first pair in source-major order, and the     *)
(* column numbers one above the indices.                                   *)
FirstRule(state, h) ==
  IF WasteRule(state) THEN h = Hint(WasteHint, 0, 0)
  ELSE IF \E c \in Columns : FoundationRule(state, c)
  THEN \E c \in Columns :
         /\ FoundationRule(state, c)
         /\ \A d \in 0 .. (c - 1) : ~FoundationRule(state, d)
         /\ h = Hint(FoundationHint, c + 1, 0)
  ELSE IF \E c \in Columns : FlipRule(state, c)
  THEN \E c \in Columns :
         /\ FlipRule(state, c)
         /\ \A d \in 0 .. (c - 1) : ~FlipRule(state, d)
         /\ h = Hint(FlipHint, c + 1, 0)
  ELSE IF \E c \in Columns, t \in Columns : TableauRule(state, c, t)
  THEN \E c \in Columns, t \in Columns :
         /\ TableauRule(state, c, t)
         /\ \A d \in 0 .. (c - 1), u \in Columns : ~TableauRule(state, d, u)
         /\ \A u \in 0 .. (t - 1) : ~TableauRule(state, c, u)
         /\ h = Hint(TableauHint, c + 1, t + 1)
  ELSE IF state.stock # <<>> THEN h = Hint(StockHint, 0, 0)
  ELSE h = Hint(NoHint, 0, 0)

(* C25: getHint returns the message of the first applicable rule in the     *)
(* fixed order waste to foundation, lowest column to foundation, lowest    *)
(* column with a face-down top, first pair of columns source-major, stock, *)
(* no obvious move, with column numbers one above the indices.             *)
HintFirstRule ==
  [][lastEvent'.handler = "handleHint" => FirstRule(gameState, lastEvent'.hint)]_vars

(* The hint names the second column, whose top is face-down, although the  *)
(* third has a face-down top too and the stock has cards to draw; the card *)
(* on the first column is face-up and goes nowhere.                        *)
HintFlipLowestColumn ==
  /\ lastEvent.handler = "handleHint"
  /\ lastEvent.hint = Hint(FlipHint, 2, 0)
  /\ gameState.tableau[0] # <<>>
  /\ FlipRule(gameState, 1)
  /\ FlipRule(gameState, 2)
  /\ gameState.stock # <<>>

(***************************************************************************)
(* Rule engine, settled on every state of the runs and every card of the   *)
(* deck                                                                    *)
(***************************************************************************)
(* The cards of the deck, face-up. *)
DeckCards == {Card(Suits[s], r, TRUE) : s \in 1 .. NumFoundations, r \in Ranks}

(* The foundation is empty and the card an ace, or its top card has the     *)
(* card's suit and the rank below the card's.                              *)
FoundationAccepts(pile, card) ==
  \/ pile = <<>> /\ card.rank = 1
  \/ /\ pile # <<>>
     /\ pile[Len(pile)].suit = card.suit
     /\ pile[Len(pile)].rank = card.rank - 1

(* C26: canPlaceOnFoundation(card, i) is true exactly when foundation i is  *)
(* empty and the card is an ace, or the foundation's top has the same suit *)
(* and the rank one below; the check written inline in the pointer-up      *)
(* callback agrees.                                                        *)
FoundationRuleExact ==
  \A card \in DeckCards : \A i \in Foundations :
    /\ canPlaceOnFoundation(gameState, card, i)
         <=> FoundationAccepts(gameState.foundations[i], card)
    /\ isValidMove(gameState, card, Foundation(i))
         <=> FoundationAccepts(gameState.foundations[i], card)

(* A two has just been placed on the ace of its suit, while an empty        *)
(* foundation is left that refuses every two.                              *)
TwoFollowedAce ==
  /\ lastEvent.calls # <<>>
  /\ lastEvent.calls[1].to.pile = "foundation"
  /\ lastEvent.calls[1].from.card.rank = 2
  /\ Len(gameState.foundations[lastEvent.calls[1].to.n]) = 2
  /\ gameState.foundations[lastEvent.calls[1].to.n][1].rank = 1
  /\ gameState.foundations[lastEvent.calls[1].to.n][1].suit
       = gameState.foundations[lastEvent.calls[1].to.n][2].suit
  /\ \E i \in Foundations : gameState.foundations[i] = <<>>

(* The colour classes. *)
Red == {"hearts", "diamonds"}
Black == {"clubs", "spades"}
OtherClass(a, b) == (a.suit \in Red /\ b.suit \in Black) \/ (a.suit \in Black /\ b.suit \in Red)

(* The column is empty and the card a king, or its top card has the other   *)
(* colour class and the rank above the card's.                             *)
TableauAccepts(pile, card) ==
  \/ pile = <<>> /\ card.rank = King
  \/ /\ pile # <<>>
     /\ OtherClass(pile[Len(pile)], card)
     /\ pile[Len(pile)].rank = card.rank + 1

(* C27: canPlaceOnTableau(card, c) is true exactly when column c is empty   *)
(* and the card is a king, or the column's top has the other colour class  *)
(* and the rank one above; the check written inline in the pointer-up      *)
(* callback agrees.                                                        *)
TableauRuleExact ==
  \A card \in DeckCards : \A c \in Columns :
    /\ canPlaceOnTableau(gameState, card, c)
         <=> TableauAccepts(gameState.tableau[c], card)
    /\ isValidMove(gameState, card, Tableau(c))
         <=> TableauAccepts(gameState.tableau[c], card)

(* A king has just been placed on an empty column. *)
KingOnEmptyColumn ==
  /\ lastEvent.calls # <<>>
  /\ lastEvent.calls[1].to.pile = "tableau"
  /\ lastEvent.calls[1].from.card.rank = King
  /\ Len(gameState.tableau[lastEvent.calls[1].to.n]) = 1
  /\ gameState.tableau[lastEvent.calls[1].to.n][1].rank = King

(* The m cards of the column from 0-based index start on are a run: all     *)
(* face-up, each after the first of the other colour class than and one    *)
(* rank below the card before it.                                          *)
IsRun(column, start, m) ==
  \A k \in 1 .. m :
    /\ start + k <= Len(column)
    /\ column[start + k].faceUp
    /\ k > 1 => /\ OtherClass(column[start + k], column[start + k - 1])
                /\ column[start + k].rank = column[start + k - 1].rank - 1

(* C28: getMoveableSequence(c, start) is the longest run of column c that   *)
(* begins at index start, as a contiguous part of the column: empty when   *)
(* the card at start is face-down or start is past the end.                *)
LongestRunExact ==
  \A c \in Columns : \A start \in 0 .. (Len(gameState.tableau[c]) + 1) :
    LET column == gameState.tableau[c]
        sequence == getMoveableSequence(gameState, c, start)
        m == Len(sequence)
    IN /\ IsRun(column, start, m)
       /\ sequence = SubSeq(column, start + 1, start + m)
       /\ \A n \in (m + 1) .. (Len(column) - start) : ~IsRun(column, start, n)

(* A column holds a run of two cards, and a face-down card under a face-up  *)
(* one elsewhere gives the empty sequence.                                 *)
RunOfTwo ==
  /\ \E c \in Columns :
       /\ Len(gameState.tableau[c]) >= 2
       /\ Len(getMoveableSequence(gameState, c, Len(gameState.tableau[c]) - 2)) = 2
  /\ \E c \in Columns :
       /\ Len(gameState.tableau[c]) >= 2
       /\ getMoveableSequence(gameState, c, 0) = <<>>
  /\ lastEvent.calls # <<>>
  /\ lastEvent.calls[1].sequence.defined

(* C29: in every reachable state every card of the stock is face-down and   *)
(* every card of the waste is face-up.                                     *)
PileOrientation ==
  /\ \A k \in 1 .. Len(gameState.stock) : ~gameState.stock[k].faceUp
  /\ \A k \in 1 .. Len(gameState.waste) : gameState.waste[k].faceUp

(* The card is the one at position k of the pile. *)
SameCardAt(pile, k, card) ==
  /\ k >= 1
  /\ k <= Len(pile)
  /\ pile[k].suit = card.suit
  /\ pile[k].rank = card.rank

(* The state holds the intent's card at the place the intent records: the   *)
(* top of the waste or of the named foundation, or position index of the   *)
(* named tableau column.                                                   *)
HoldsIntent(state, intent) ==
  IF intent.source.pile = "waste"
  THEN SameCardAt(state.waste, Len(state.waste), intent.card)
  ELSE IF intent.source.pile = "foundation"
  THEN SameCardAt(state.foundations[intent.source.n],
                  Len(state.foundations[intent.source.n]), intent.card)
  ELSE IF intent.source.pile = "tableau"
  THEN SameCardAt(state.tableau[intent.source.n], intent.index + 1, intent.card)
  ELSE FALSE

(* C30: whenever a selection is pending, the live state holds the selected  *)
(* card at the recorded place.                                             *)
SelectionValid == selectedCard # NoIntent => HoldsIntent(gameState, selectedCard)

(* The move call, if it goes from a tableau column to a tableau column,     *)
(* moves a non-empty sequence that begins with the chosen card and is the  *)
(* column of state from the chosen card's index to its end.                *)
MovesTail(state, call) ==
  (call.from.source.pile = "tableau" /\ call.to.pile = "tableau") =>
    LET cards == cardsToMove(call.from, call.sequence)
        column == state.tableau[call.from.source.n]
    IN /\ Len(cards) >= 1
       /\ cards[1].suit = call.from.card.suit
       /\ cards[1].rank = call.from.card.rank
       /\ cards = SubSeq(column, Len(column) - Len(cards) + 1, Len(column))

(* C31: in every executed move from a tableau column to a tableau column    *)
(* the moved sequence is non-empty, begins with the selected or dragged    *)
(* card and reaches the end of the source column.  Stated for the first    *)
(* move an event executes, which is applied to the rendered state.         *)
TableauMoveTakesTail ==
  [][lastEvent'.calls # <<>> => MovesTail(gameState, lastEvent'.calls[1])]_vars

(* The event is a click on the top card of a foundation that accepts the    *)
(* pending selection in state.                                             *)
PlacesOnFoundationCard(state, event) ==
  /\ event.handler = "handleCardClick"
  /\ event.clicked.source.pile = "foundation"
  /\ event.clicked.card.faceUp
  /\ event.intent # NoIntent
  /\ canPlaceOnFoundation(state, event.intent.card, event.clicked.source.n)

(* C32: placing the selected card by a click on the top card of a           *)
(* non-empty foundation executes the move once: one moveCard call, one     *)
(* card more on the foundation, one history entry more (up to the limit).  *)
PlacedOnce ==
  [][PlacesOnFoundationCard(gameState, lastEvent')
     => /\ Len(lastEvent'.calls) = 1
        /\ Len(gameState'.foundations[lastEvent'.clicked.source.n])
             = Len(gameState.foundations[lastEvent'.clicked.source.n]) + 1
        /\ Len(gameHistory') = Min({Len(gameHistory) + 1, HistoryLimit})]_vars

(* C33: in every reachable state the top card of every non-empty tableau    *)
(* column is face-up, so no click finds a face-down top to flip and the    *)
(* hint's flip rule applies to no column.                                  *)
NoFaceDownTop ==
  /\ \A c \in Columns :
       gameState.tableau[c] # <<>>
         => gameState.tableau[c][Len(gameState.tableau[c])].faceUp
  /\ hintToFlip(gameState) = {}
  /\ \A clicked \in Rendered(gameState) :
       ~clicked.card.faceUp
         => flipUpdater(gameState, clicked.source, clicked.index) = gameState

(* A drop has just taken the top card off a column and the card under it,   *)
(* dealt face-down, is face-up above a card that is still face-down.       *)
DropRevealedTop ==
  /\ lastEvent.handler = "handleDrop"
  /\ Len(lastEvent.calls) = 1
  /\ lastEvent.calls[1].from.source.pile = "tableau"
  /\ Len(gameState.tableau[lastEvent.calls[1].from.source.n]) = 2
  /\ gameState.tableau[lastEvent.calls[1].from.source.n][2].faceUp
  /\ ~gameState.tableau[lastEvent.calls[1].from.source.n][1].faceUp

(***************************************************************************)
(* Passes through the stock: log holds the states before each of the stock *)
(* clicks made since the last event of another kind.                       *)
(***************************************************************************)
CycleTick == steps < CycleSteps /\ steps' = steps + 1 /\ UNCHANGED undone

NextCycle ==
  \/ CycleTick /\ MountDeal /\ log' = <<>>
  \/ CycleTick /\ HandleStockClick /\ log' = Append(log, gameState)
  \/ CycleTick /\ HandleDoubleClick /\ log' = <<>>

SpecCycle == Init /\ [][NextCycle]_vars

(* The state after the first k of the logged stock clicks. *)
AfterClicks(k) == IF k + 1 <= Len(log) THEN log[k + 1] ELSE gameState

AllFaceDown(pile) == \A k \in 1 .. Len(pile) : ~pile[k].faceUp

(* C34: from a state with n >= 1 stock cards and an empty waste, n + 1     *)
(* stock clicks in a row give back the same stock in the same order, all   *)
(* face-down, and an empty waste.                                          *)
StockCycle ==
  \A i \in 1 .. Len(log) :
    LET n == Len(log[i].stock)
    IN (mounted /\ log[i].waste = <<>> /\ n >= 1 /\ i + n <= Len(log))
         => /\ AfterClicks(i + n).stock = log[i].stock
            /\ AllFaceDown(AfterClicks(i + n).stock)
            /\ AfterClicks(i + n).waste = <<>>

(* Two passes in a row through a stock of two cards have come back to the  *)
(* stock they started from.                                                *)
CycledTwice ==
  /\ Len(log) = 6
  /\ Len(log[1].stock) = 2 /\ log[1].waste = <<>>
  /\ log[4] = log[1]
  /\ gameState.stock = log[1].stock /\ gameState.waste = <<>>

(***************************************************************************)
(* A game played towards the foundations: the player draws when the waste  *)
(* is empty, selects a card a foundation accepts, and sends cards up by    *)
(* double click or by a click on the first foundation slot that accepts    *)
(* the selected card.                                                      *)
(***************************************************************************)
NextEndgame ==
  \/ Tick(EndgameSteps) /\ MountDeal
  \/ Tick(EndgameSteps) /\ HandleStockClick
        /\ gameState.stock # <<>> /\ gameState.waste = <<>>
  \/ Tick(EndgameSteps) /\ HandleCardClick
        /\ selectedCard = NoIntent /\ selectedCard' # NoIntent
        /\ someFoundationAccepts(gameState, selectedCard'.card)
  \/ Tick(EndgameSteps) /\ HandleDoubleClick /\ lastEvent'.calls # <<>>
  \/ Tick(EndgameSteps) /\ HandleFoundationClick /\ lastEvent'.calls # <<>>
        /\ lastEvent'.target.n = Min(acceptingFoundations(gameState, selectedCard.card))

SpecEndgame == Init /\ [][NextEndgame]_vars

(* The foundations hold every card of the deck, each one once, one suit to *)
(* a foundation and in rank order from the ace.                            *)
FourCompleteSuits(state) ==
  /\ \A i \in Foundations :
       /\ Len(state.foundations[i]) = NumRanks
       /\ \A k \in 1 .. NumRanks :
            /\ state.foundations[i][k].rank = k
            /\ state.foundations[i][k].suit = state.foundations[i][1].suit
  /\ \A i, j \in Foundations :
       i # j => state.foundations[i][1].suit # state.foundations[j][1].suit

(* C35: whenever the game is won, the stock, the waste and every tableau   *)
(* column are empty and the foundations hold four complete distinct suits. *)
WonMeansCleared ==
  (mounted /\ isGameWon(gameState))
    => /\ gameState.stock = <<>>
       /\ gameState.waste = <<>>
       /\ \A c \in Columns : gameState.tableau[c] = <<>>
       /\ FourCompleteSuits(gameState)

(* The moveCard calls of a click on column c with from selected: on its top *)
(* card, or on the empty column.  A click on a face-down top card runs the *)
(* flip branch, which calls no moveCard.                                   *)
toColumnCalls(state, from, c) ==
  IF Len(state.tableau[c]) = 0
  THEN columnClickCalls(state, from, c)
  ELSE IF Top(state.tableau[c]).faceUp
  THEN cardClickCalls(state, from, Tableau(c))
  ELSE <<>>

(* The selected face-up card from and a click on a foundation or a column  *)
(* other than its own make a move that changes state.                      *)
ChangesByMove(state, from) ==
  \/ \E i \in Foundations :
       /\ from.source # Foundation(i)
       /\ foundationClickCalls(state, from, i) # <<>>
       /\ runUpdaters(state, foundationClickCalls(state, from, i)) # state
  \/ \E c \in Columns :
       /\ from.source # Tableau(c)
       /\ toColumnCalls(state, from, c) # <<>>
       /\ runUpdaters(state, toColumnCalls(state, from, c)) # state

(* Some action changes state: a move of a rendered face-up card, or a      *)
(* stock click that draws or recycles.                                     *)
SomeActionChanges(state) ==
  \/ \E from \in {r \in Rendered(state) : r.card.faceUp} : ChangesByMove(state, from)
  \/ stockClickUpdater(state) # state

(* C36: whenever getHint returns the no-obvious-move message, no action    *)
(* would change the GameState: no accepted move from waste, tableau or     *)
(* foundation to a foundation or a column, and no draw or recycle.         *)
NoHintMeansStuck ==
  (mounted /\ getHint(gameState).text = NoHint) => ~SomeActionChanges(gameState)

(* Nothing to draw and nothing to recycle. *)
StockAndWasteEmpty(state) == state.stock = <<>> /\ state.waste = <<>>

(* C37: every stock click pushes one snapshot; with stock and waste both   *)
(* empty the GameState stays as it is, the history still grows by one      *)
(* entry (the oldest is evicted at capacity), and an undo that follows     *)
(* restores a state identical to the current one.                          *)
EmptyStockClickSnapshots ==
  /\ [][lastEvent'.handler = "handleStockClick"
        => Len(gameHistory') = Min({Len(gameHistory) + 1, HistoryLimit})]_vars
  /\ [][(lastEvent'.handler = "handleStockClick" /\ StockAndWasteEmpty(gameState))
        => /\ gameState' = gameState
           /\ gameHistory' = SliceLast(Append(gameHistory, gameState), HistoryLimit)]_vars
  /\ [][(/\ lastEvent.handler = "handleStockClick"
         /\ StockAndWasteEmpty(gameState)
         /\ lastEvent'.handler = "handleUndo")
        => gameState' = gameState]_vars

(* A stock click has just found stock and waste empty with the history at  *)
(* capacity: the oldest entry was evicted and the newest entry is the      *)
(* state itself.                                                           *)
EmptyStockClickAtCapacity ==
  /\ lastEvent.handler = "handleStockClick"
  /\ mounted /\ StockAndWasteEmpty(gameState)
  /\ Len(log) = ScenarioMoves
  /\ Len(gameHistory) = HistoryLimit
  /\ Top(gameHistory) = gameState

====
